---- MODULE Spec2Model ----
(***************************************************************************)
(* Nutify: UPS monitoring.  A model of                                     *)
(*   - the event store of core/events/ups_notifier.py                      *)
(*     (close_previous_events / store_event_in_database), run by notifier  *)
(*     processes that upsmon starts independently of each other;           *)
(*   - the sample buffer / aggregator of core/db/ups/cache.py              *)
(*     (UPSDataCache and the polling cycle save_ups_data);                 *)
(*   - the dispatch of process_ups_event and the durations it reports;     *)
(*   - the webhook send of core/extranotifs/webhook/webhook.py;            *)
(*   - the email test and send paths of core/mail/mail.py;                 *)
(*   - the websocket broadcast of core/db/ups/cache.py and the polling     *)
(*     loop of app.py;                                                     *)
(*   - the UPS reader of core/db/ups/data.py and utils.py;                 *)
(*   - the argument parser and the Ntfy push of ups_notifier.py;           *)
(*   - calculate_and_save_averages run by two threads at once;             *)
(*   - the webhook URL check and the webhook test action.                  *)
(* Event timestamps are whole seconds (store_event_in_database drops the   *)
(* microseconds); aggregator timestamps are counted in ticks of half a     *)
(* second so that the sub-second part of datetime.now() is kept.           *)
(***************************************************************************)
EXTENDS Integers, Sequences, FiniteSets, TLC

\* Python None (a NULL column)
NULL == -1

-----------------------------------------------------------------------------
(* Bounds of the event-store model *)
MaxEvents == 2
MaxClock == 300
MaxEvFaults == 1

Notifiers == {"n1", "n2"}
UpsNames == {"ups1", "ups2"}
EventTypes == {"ONBATT", "ONLINE"}
ClockSteps == {300}

VARIABLES
    events,      \* the ups_events table, in insertion order
    pc,          \* where each notifier process is in store_event_in_database
    call,        \* the locals of each notifier's call
    clock,       \* wall clock, seconds
    overlapped,  \* history: some call began while another was in progress
    evFaults     \* history: number of database errors raised so far

evVars == <<events, pc, call, clock, overlapped, evFaults>>

VARIABLES
    cache,            \* the UPSDataCache object ups_data_cache
    store,            \* the aggregate table (UPSDynamicData rows), in insertion order
    polling_interval, \* VariableConfig.polling_interval, seconds
    wall,             \* wall clock, ticks (UTC)
    quiet,            \* environment profile: constant readings, no errors, exact sleeps
    cycles,           \* history: polling cycles run so far
    disturbances,     \* history: errors raised, long pauses of the polling loop,
                      \* changes of the polling interval, unsteady readings so far
    last,             \* history: what the last polling cycle did
    hist              \* history: the samples added so far, the last failed commit,
                      \* the times aggregate_daily_data was called

cacheVars == <<cache, store, polling_interval, wall, quiet, cycles, disturbances,
               last, hist>>

VARIABLES
    settings,      \* the NotificationSettings row of each event type
    mail_enabled,  \* some MailConfig row has enabled = True
    ntfy_configs,  \* the notify_<event> flags of each NtfyConfig row
    webhooks,      \* the notify_<event> flags of each WebhookConfig row
    HAS_NTFY,      \* the ntfy module could be imported
    HAS_WEBHOOK,   \* the webhook module could be imported
    dispatch,      \* history: what the last process_ups_event call did
    configured,    \* history: configuration changes so far
    dispatches     \* history: process_ups_event calls so far

dispVars == <<settings, mail_enabled, ntfy_configs, webhooks, HAS_NTFY, HAS_WEBHOOK,
              dispatch, configured, dispatches>>

VARIABLES
    hook,          \* history: what the last WebhookNotifier.send_notification call did
    mailer,        \* mail.py: the clock, _last_test_notification_time and, as
                   \* history, the accepted test notifications and the last call
    sockets,       \* the websocket clients and, as history, the last handler run
    poller,        \* polling_thread: failures and, as history, the last iteration
    reader,        \* history: what the last get_ups_data call met and did
    parsed,        \* history: what the last call of the script was given and returned
    flushers,      \* the cache, the store and the threads in calculate_and_save_averages
    push,          \* history: what the last push of an event was given and sent
    tested         \* history: what the last webhook test_notification sent and returned

extVars == <<hook, mailer, sockets, poller, reader, parsed, flushers, push, tested>>

vars == <<evVars, cacheVars, dispVars, extVars>>

NoCall == [ups |-> "ups1", type |-> "ONBATT", now |-> 0, open |-> {}, ret |-> "none"]

\* rows of ups_name = u whose timestamp_tz_end is NULL
OpenEvents(evs, u) ==
    {i \in DOMAIN evs : evs[i].ups_name = u /\ evs[i].timestamp_tz_end = NULL}

\* the UPDATE that the commit of close_previous_events flushes: the rows loaded
\* by the query get timestamp_tz_end = current_time
CloseRows(evs, rows, current_time) ==
    [i \in DOMAIN evs |->
        IF i \in rows THEN [evs[i] EXCEPT !.timestamp_tz_end = current_time]
        ELSE evs[i]]

\* the row store_event_in_database builds
NewEvent(u, t, now) ==
    [timestamp_tz |-> now, timestamp_tz_begin |-> now, timestamp_tz_end |-> NULL,
     ups_name |-> u, event_type |-> t, acknowledged |-> FALSE]

InitEvents ==
    /\ events = <<>>
    /\ pc = [p \in Notifiers |-> "idle"]
    /\ call = [p \in Notifiers |-> NoCall]
    /\ clock = 0
    /\ overlapped = FALSE
    /\ evFaults = 0

\* upsmon starts a notifier: store_event_in_database reads the clock
BeginStore(p, u, t) ==
    /\ pc[p] = "idle"
    /\ Len(events) < MaxEvents
    /\ call' = [call EXCEPT ![p] = [ups |-> u, type |-> t, now |-> clock,
                                    open |-> {}, ret |-> "none"]]
    /\ pc' = [pc EXCEPT ![p] = "select"]
    /\ overlapped' = (overlapped \/ \E q \in Notifiers \ {p} : pc[q] # "idle")
    /\ UNCHANGED <<events, clock, evFaults, cacheVars, dispVars, extVars>>

\* close_previous_events: the query for the open events of the UPS.  When it
\* raises, the except branch returns 0 and the caller goes on to the insert.
\* When it finds nothing, count = 0 and no commit is made.
SelectOpen(p, ok) ==
    /\ pc[p] = "select"
    /\ IF ok
       THEN LET found == OpenEvents(events, call[p].ups) IN
            /\ call' = [call EXCEPT ![p].open = found]
            /\ pc' = [pc EXCEPT ![p] = IF found = {} THEN "insert" ELSE "close"]
            /\ UNCHANGED evFaults
       ELSE /\ evFaults < MaxEvFaults
            /\ evFaults' = evFaults + 1
            /\ pc' = [pc EXCEPT ![p] = "insert"]
            /\ UNCHANGED call
    /\ UNCHANGED <<events, clock, overlapped, cacheVars, dispVars, extVars>>

\* close_previous_events: the commit of the end timestamps.  When it raises the
\* session rolls back, the except branch returns 0 and the caller goes on.
CommitClose(p, ok) ==
    /\ pc[p] = "close"
    /\ IF ok
       THEN /\ events' = CloseRows(events, call[p].open, call[p].now)
            /\ UNCHANGED evFaults
       ELSE /\ evFaults < MaxEvFaults
            /\ evFaults' = evFaults + 1
            /\ UNCHANGED events
    /\ pc' = [pc EXCEPT ![p] = "insert"]
    /\ UNCHANGED <<call, clock, overlapped, cacheVars, dispVars, extVars>>

\* store_event_in_database: add and commit of the new row; True on success,
\* False from the except branch.  The process ends: only its result is kept.
InsertEvent(p, ok) ==
    /\ pc[p] = "insert"
    /\ IF ok
       THEN /\ events' = Append(events, NewEvent(call[p].ups, call[p].type, call[p].now))
            /\ call' = [call EXCEPT ![p] = [NoCall EXCEPT !.ret = "True"]]
            /\ UNCHANGED evFaults
       ELSE /\ evFaults < MaxEvFaults
            /\ evFaults' = evFaults + 1
            /\ call' = [call EXCEPT ![p] = [NoCall EXCEPT !.ret = "False"]]
            /\ UNCHANGED events
    /\ pc' = [pc EXCEPT ![p] = "idle"]
    /\ UNCHANGED <<clock, overlapped, cacheVars, dispVars, extVars>>

Tick ==
    /\ \E d \in ClockSteps :
        /\ clock + d <= MaxClock
        /\ clock' = clock + d
    /\ UNCHANGED <<events, pc, call, overlapped, evFaults, cacheVars, dispVars, extVars>>

NextEvents ==
    \/ \E p \in Notifiers, u \in UpsNames, t \in EventTypes : BeginStore(p, u, t)
    \/ \E p \in Notifiers, ok \in BOOLEAN : SelectOpen(p, ok)
    \/ \E p \in Notifiers, ok \in BOOLEAN : CommitClose(p, ok)
    \/ \E p \in Notifiers, ok \in BOOLEAN : InsertEvent(p, ok)
    \/ Tick

-----------------------------------------------------------------------------
(* Aggregator: time.  An instant is a number of ticks since an epoch, in UTC. *)

\* resolution of datetime.now(): ticks per second
TicksPerSecond == 2
Second == TicksPerSecond
Minute == 60 * Second
Hour == 60 * Minute
Day == 24 * Hour

\* the configured timezone, as its offset from UTC
TzOffset == Hour

\* datetime.astimezone(tz): the local wall time of an instant, and back
astimezone(t) == t + TzOffset
instant(local_time) == local_time - TzOffset

\* local_time.date()
LocalDate(t) == astimezone(t) \div Day

\* variant: a time already on a minute boundary is returned as it is
get_next_minute_ceil(current_time) ==
    LET local_time == astimezone(current_time) IN
    IF local_time % Minute = 0 THEN current_time
    ELSE instant((local_time - (local_time % Minute)) + Minute)

get_next_minute(current_time) ==
    LET local_time == astimezone(current_time) IN
    instant((local_time - (local_time % Minute)) + Minute)

get_next_hour(current_time) ==
    LET local_time == astimezone(current_time) IN
    instant((local_time - (local_time % Hour)) + Hour)

(* Aggregator: numbers.  Readings are whole units; averages are kept in
   hundredths, which is what rounding to 2 decimals leaves. *)

Max(a, b) == IF a >= b THEN a ELSE b

RECURSIVE SumSeq(_)
SumSeq(q) == IF q = <<>> THEN 0 ELSE Head(q) + SumSeq(Tail(q))

\* round(num / den): to the nearest integer, a tie to the even one
RoundHalfEven(num, den) ==
    LET q == num \div den
        r == num % den
    IN IF 2 * r < den THEN q
       ELSE IF 2 * r > den THEN q + 1
       ELSE IF q % 2 = 0 THEN q ELSE q + 1

CACHE_SECONDS == 60

(* Bounds and inputs of the aggregator model *)
MaxCycles == 7
MaxQuietCycles == 62
MaxDisturbances == 1

PollingIntervals == {1, 12, 30, 60}
Samples == {[ups_realpower |-> 100, ups_load |-> 42, ups_status |-> "OL"],
            [ups_realpower |-> 201, ups_load |-> 44, ups_status |-> "OB"]}
QuietSample == [ups_realpower |-> 100, ups_load |-> 42, ups_status |-> "OL"]
\* the reading of a UPS that reports no real power and load 0, for which
\* calculate_realpower computes nothing: the key ups_realpower is absent (NULL)
IdleSample == [ups_realpower |-> NULL, ups_load |-> 0, ups_status |-> "OL"]
Faults == {"none", "config", "read", "query", "persist", "daily"}
\* a pause of the polling loop (host suspended, process stopped)
Stall == Hour
\* local start times: 22:58:59, half a second after 22:59:00 and 23:59:59 on day 1
StartTimes == {instant(Day + 22 * Hour + 58 * Minute + 59 * Second),
               instant(Day + 22 * Hour + 59 * Minute + 1),
               instant(Day + 23 * Hour + 59 * Minute + 59 * Second)}
QuietStart == instant(Day + 22 * Hour + 59 * Minute + 1)

\* UPSDataCache.__init__, as called for the global ups_data_cache;
\* last_broadcast is <<>> for None, else <<payload>>
NewCache(size) ==
    [size |-> size, data |-> <<>>, next_save_time |-> NULL, next_hour |-> NULL,
     hourly_data |-> <<>>, last_daily_aggregation |-> NULL, last_broadcast |-> <<>>]

\* last: the clock read by the cycle, the polling interval it used, whether
\* add was reached, the buffer size, next_save_time and the buffered timestamps
\* as calculate_and_save_averages found them, the result of is_save_time, the
\* result of calculate_and_save_averages, the operation that raised and whether
\* aggregate_daily_data was called
NoCycle == [now |-> NULL, interval |-> NULL, added |-> FALSE, size |-> NULL,
            next_save_time |-> NULL, buffered |-> <<>>, due |-> FALSE,
            ret |-> "none", fault |-> "none", daily |-> FALSE]

Timestamps(data) == [i \in DOMAIN data |-> data[i].timestamp]

InitCache ==
    /\ quiet \in BOOLEAN
    /\ cache = NewCache(CACHE_SECONDS)
    /\ store = <<>>
    /\ polling_interval \in (IF quiet THEN {1} ELSE PollingIntervals)
    /\ wall \in (IF quiet THEN {QuietStart} ELSE StartTimes)
    /\ cycles = 0
    /\ disturbances = 0
    /\ last = NoCycle
    /\ hist = [added |-> <<>>, failedAt |-> NULL, daily |-> <<>>]

\* important_metrics of broadcast_cache_update
important_metrics == {"ups_load", "battery_charge", "ups_realpower", "input_voltage"}

\* the metric is a key of the payload (NULL: the key is absent)
has_metric(payload, metric) == metric \in DOMAIN payload /\ payload[metric] # NULL

\* variant: a change has to exceed the threshold
moved_beyond(current_val, last_val, unit) ==
    (IF current_val >= last_val THEN current_val - last_val
     ELSE last_val - current_val) > unit

\* abs(float(current_val) - float(last_val)) >= 1.0, for values counted in
\* 1/unit of a percent, watt or volt
moved(current_val, last_val, unit) ==
    (IF current_val >= last_val THEN current_val - last_val
     ELSE last_val - current_val) >= unit

\* the loop over important_metrics: a metric in both payloads moved by 1 or more
significant_change(broadcast_data, last_broadcast, unit) ==
    \E metric \in important_metrics :
        /\ has_metric(broadcast_data, metric) /\ has_metric(last_broadcast, metric)
        /\ moved(broadcast_data[metric], last_broadcast[metric], unit)

\* the decision of broadcast_cache_update for a non-empty payload: the payload
\* replaces last_broadcast and is emitted unless there is a last broadcast,
\* the status is unchanged and no watched metric moved by 1 or more
cache_update(last_broadcast, broadcast_data, unit) ==
    LET status_changed == broadcast_data.ups_status # last_broadcast[1].ups_status
    IN IF /\ last_broadcast # <<>>
          /\ ~status_changed
          /\ ~significant_change(broadcast_data, last_broadcast[1], unit)
       THEN [emit |-> FALSE, last_broadcast |-> last_broadcast]
       ELSE [emit |-> TRUE, last_broadcast |-> <<broadcast_data>>]

\* UPSDataCache.broadcast_cache_update, for the samples of the aggregator
\* (whole units); what it leaves in the cache
broadcast_cache_update(c, data, now) ==
    LET broadcast_data == [timestamp |-> now, ups_realpower |-> data.ups_realpower,
                           ups_load |-> data.ups_load, ups_status |-> data.ups_status]
    IN [c EXCEPT !.last_broadcast = cache_update(c.last_broadcast, broadcast_data, 1).last_broadcast]

\* UPSDataCache.add
add(c, timestamp, data) ==
    LET c1 == IF c.next_save_time = NULL
              THEN [c EXCEPT !.next_save_time = get_next_minute(timestamp)]
              ELSE c
        row == [timestamp |-> timestamp, ups_realpower |-> data.ups_realpower,
                ups_load |-> data.ups_load, ups_status |-> data.ups_status]
        c2 == [c1 EXCEPT !.data = Append(c1.data, row)]
    IN broadcast_cache_update(c2, data, timestamp)

\* variant: saves whenever next_save_time is set
is_save_time_eager(c, current_time) == c.next_save_time # NULL

\* variant: the buffer has to exceed its size
is_save_time_strict(c, current_time) ==
    IF c.next_save_time = NULL THEN FALSE
    ELSE IF current_time >= c.next_save_time THEN TRUE
    ELSE IF Len(c.data) > c.size THEN TRUE
    ELSE FALSE

\* UPSDataCache.is_save_time
is_save_time(c, current_time) ==
    IF c.next_save_time = NULL THEN FALSE
    ELSE IF current_time >= c.next_save_time THEN TRUE
    ELSE IF Len(c.data) >= c.size THEN TRUE
    ELSE FALSE

\* the values a column holds: a sample without the key leaves a NaN in the
\* DataFrame, which mean() skips
Present(values) == SelectSeq(values, LAMBDA v : v # NULL)

\* variant: the mean is cut to 2 decimals
Mean2_floor(values) ==
    IF Present(values) = <<>> THEN NULL
    ELSE (100 * SumSeq(Present(values))) \div Len(Present(values))

\* mean().round(2) of a column, in hundredths; NULL for a column that no
\* sample of the buffer has
Mean2(values) ==
    IF Present(values) = <<>> THEN NULL
    ELSE RoundHalfEven(100 * SumSeq(Present(values)), Len(Present(values)))

\* variant: an empty buffer averages to zeros
calculate_averages_zero(c) ==
    IF c.data = <<>>
    THEN [none |-> FALSE, ups_realpower |-> 0, ups_load |-> 0, ups_status |-> "None"]
    ELSE [none |-> FALSE,
          ups_realpower |-> Mean2([i \in DOMAIN c.data |-> c.data[i].ups_realpower]),
          ups_load |-> Mean2([i \in DOMAIN c.data |-> c.data[i].ups_load]),
          ups_status |-> c.data[Len(c.data)].ups_status]

\* UPSDataCache.calculate_averages: mean of the numeric columns, last value of
\* the non-numeric one; none stands for the None result
calculate_averages(c) ==
    IF c.data = <<>>
    THEN [none |-> TRUE, ups_realpower |-> NULL, ups_load |-> NULL, ups_status |-> "None"]
    ELSE [none |-> FALSE,
          ups_realpower |-> Mean2([i \in DOMAIN c.data |-> c.data[i].ups_realpower]),
          ups_load |-> Mean2([i \in DOMAIN c.data |-> c.data[i].ups_load]),
          ups_status |-> c.data[Len(c.data)].ups_status]

\* variant: no marker of the last aggregation date
should_aggregate_daily_unguarded(c, current_time) ==
    LET local_time == astimezone(current_time) IN
    local_time % Day < Minute

\* UPSDataCache.should_aggregate_daily (its update of last_daily_aggregation
\* is made by the caller below)
should_aggregate_daily(c, current_time) ==
    LET local_time == astimezone(current_time) IN
    /\ local_time % Day < Minute
    /\ c.last_daily_aggregation # LocalDate(current_time)

\* replace(hour=0, minute=0, second=0) keeps the microseconds
aggregation_time(current_time) ==
    LET local_time == astimezone(current_time) IN
    instant((local_time - (local_time % Day)) + (local_time % Second))

\* UPSDataCache.aggregate_daily_data: AVG of the non-null ups_realpower_hrs of
\* the previous day; a NULL or zero average writes nothing, nor does an error
aggregate_daily_data(st, current_time, ok) ==
    LET agg == aggregation_time(current_time)
        rows == SelectSeq(st, LAMBDA r : /\ r.timestamp_tz >= agg - Day
                                         /\ r.timestamp_tz < agg
                                         /\ r.ups_realpower_hrs # NULL)
        total == SumSeq([i \in DOMAIN rows |-> rows[i].ups_realpower_hrs])
        new_daily == [timestamp_tz |-> agg - Day, ups_realpower |-> NULL,
                      ups_load |-> NULL, ups_status |-> "None", ups_realpower_hrs |-> NULL,
                      ups_realpower_days |-> RoundHalfEven(total, Len(rows)),
                      samples |-> <<>>]
    IN IF rows = <<>> \/ total = 0 \/ ~ok THEN st ELSE Append(st, new_daily)

\* variant: next_save_time advances by one minute from its old value
after_save_step(c, current_time) ==
    [c EXCEPT !.data = <<>>, !.next_save_time = c.next_save_time + Minute]

\* calculate_and_save_averages, after the commit: the buffer is emptied and
\* next_save_time moves to the minute after the flush time
after_save(c, current_time) ==
    [c EXCEPT !.data = <<>>, !.next_save_time = get_next_minute(current_time)]

\* variant: the buffer is emptied on the error path as well
save_failed_cleared(c) == [c EXCEPT !.data = <<>>]

\* calculate_and_save_averages, the except branch: the error is logged and the
\* cache is left as the failing statement found it
save_failed(c) == c

\* calculate_and_save_averages, the hourly block: the persisted records of
\* the hour before next_hour, the rounded mean of their non-null ups_realpower
\* (a value in hundredths stays in hundredths); NULL leaves the column unset
hourly_average(st, next_hour, current_time) ==
    LET exact_hour == next_hour - Hour
        hour_data == SelectSeq(st, LAMBDA r : /\ r.timestamp_tz >= exact_hour
                                              /\ r.timestamp_tz < exact_hour + Hour)
        powers == Present([i \in DOMAIN hour_data |-> hour_data[i].ups_realpower])
    IN IF powers = <<>> THEN NULL ELSE RoundHalfEven(SumSeq(powers), Len(powers))

\* UPSDataCache.calculate_and_save_averages.  fault names the operation that
\* raises in this call, if any.  The field samples of a row is history: the
\* timestamps of the buffered samples the row was averaged from.
calculate_and_save_averages(c0, st, current_time, fault) ==
    LET c1 == IF c0.next_hour = NULL
              THEN [c0 EXCEPT !.next_hour = get_next_hour(current_time)]
              ELSE c0
        averages == calculate_averages(c1)
    IN
    IF ~is_save_time(c1, current_time) \/ averages.none
    THEN [cache |-> c1, store |-> st, ret |-> "False", daily |-> FALSE]
    ELSE
    LET has_power == averages.ups_realpower # NULL
        hour_due == has_power /\ current_time >= c1.next_hour
        appended == Append(c1.hourly_data,
                           [timestamp |-> c1.next_save_time,
                            ups_realpower |-> averages.ups_realpower])
        dynamic_data ==
            [timestamp_tz |-> c1.next_save_time,
             ups_realpower |-> averages.ups_realpower,
             ups_load |-> averages.ups_load,
             ups_status |-> averages.ups_status,
             ups_realpower_hrs |-> IF hour_due
                                   THEN hourly_average(st, c1.next_hour, current_time)
                                   ELSE NULL,
             ups_realpower_days |-> NULL,
             samples |-> Timestamps(c1.data)]
        c2 == IF hour_due
              THEN [c1 EXCEPT !.hourly_data = <<>>,
                              !.next_hour = get_next_hour(current_time)]
              ELSE IF has_power THEN [c1 EXCEPT !.hourly_data = appended]
              ELSE c1
    IN
    IF hour_due /\ fault = "query"
    THEN [cache |-> save_failed([c1 EXCEPT !.hourly_data = appended]),
          store |-> st, ret |-> "False", daily |-> FALSE]
    ELSE IF fault = "persist"
    THEN [cache |-> save_failed(c2), store |-> st, ret |-> "False", daily |-> FALSE]
    ELSE
    LET saved == Append(st, dynamic_data)
        c3 == after_save(c2, current_time)
        daily == should_aggregate_daily(c3, current_time)
    IN [cache |-> IF daily
                  THEN [c3 EXCEPT !.last_daily_aggregation = LocalDate(current_time)]
                  ELSE c3,
        store |-> IF daily
                  THEN aggregate_daily_data(saved, current_time, fault # "daily")
                  ELSE saved,
        ret |-> "True", daily |-> daily]

\* save_ups_data: the buffer size for the polling interval read from the
\* configuration (1 when reading it raises)
target_buffer_size(size, interval) ==
    IF interval > 1 THEN Max(5, CACHE_SECONDS \div interval) ELSE size

\* the sleep of polling_thread: the interval clamped to 1..60 seconds
SleepTicks(interval) == Max(1, IF interval <= 60 THEN interval ELSE 60) * Second

\* whether the operation that fault names is executed by a cycle that adds to
\* c at current_time: the hour query, the commit of the new row, the daily
\* aggregation.  (The configuration and the UPS are read in every cycle; with
\* polling interval 1 the default taken on a configuration error is the same.)
Executes(c, current_time, fault) ==
    LET due == is_save_time(c, current_time)
        next_hour == IF c.next_hour = NULL THEN get_next_hour(current_time)
                     ELSE c.next_hour
    IN CASE fault = "config" -> polling_interval # 1
         [] fault = "query" -> /\ due /\ current_time >= next_hour
                               /\ calculate_averages(c).ups_realpower # NULL
         [] fault = "persist" -> due
         [] fault = "daily" -> due /\ should_aggregate_daily(c, current_time)
         [] OTHER -> TRUE

\* how many of the disturbances of a cycle happen: an error, a long pause, a
\* reading other than the steady one
Disturbed(data, fault, d) ==
    (IF fault # "none" THEN 1 ELSE 0) + (IF d = Stall THEN 1 ELSE 0)
    + (IF data # QuietSample THEN 1 ELSE 0)

\* One cycle of polling_thread: save_ups_data (read the clock and the polling
\* interval, resize, read the UPS, add, calculate_and_save_averages), then the
\* sleep.  d is the time until the next cycle starts.
Poll(data, fault, d) ==
    /\ cycles < (IF quiet THEN MaxQuietCycles ELSE MaxCycles)
    /\ quiet => (fault = "none" /\ data = QuietSample /\ d = SleepTicks(polling_interval))
    /\ Disturbed(data, fault, d) <= MaxDisturbances - disturbances
    /\ LET now == wall
           interval == IF fault = "config" THEN 1 ELSE polling_interval
           c0 == [cache EXCEPT !.size = target_buffer_size(cache.size, interval)]
           c1 == add(c0, now, data)
           r == calculate_and_save_averages(c1, store, now, fault)
       IN /\ Executes(c1, now, fault)
          /\ IF fault = "read"
             THEN /\ cache' = c0
                  /\ store' = store
                  /\ last' = [now |-> now, interval |-> interval, added |-> FALSE,
                              size |-> c0.size, next_save_time |-> c0.next_save_time,
                              buffered |-> Timestamps(c0.data), due |-> FALSE,
                              ret |-> "none", fault |-> fault, daily |-> FALSE]
                  /\ hist' = hist
             ELSE /\ cache' = r.cache
                  /\ store' = r.store
                  /\ last' = [now |-> now, interval |-> interval, added |-> TRUE,
                              size |-> c1.size, next_save_time |-> c1.next_save_time,
                              buffered |-> Timestamps(c1.data),
                              due |-> is_save_time(c1, now),
                              ret |-> r.ret, fault |-> fault, daily |-> r.daily]
                  /\ hist' = [added |-> Append(hist.added, now),
                              failedAt |-> IF fault = "persist" THEN now
                                           ELSE hist.failedAt,
                              daily |-> IF r.daily THEN Append(hist.daily, now)
                                        ELSE hist.daily]
    /\ wall' = wall + d
    /\ cycles' = cycles + 1
    /\ disturbances' = disturbances + Disturbed(data, fault, d)
    /\ UNCHANGED <<polling_interval, quiet, evVars, dispVars, extVars>>

\* the operator saves another polling interval in the options page while the
\* polling loop runs (the interval it starts with is drawn in InitCache)
SetPollingInterval(i) ==
    /\ ~quiet
    /\ cycles > 0
    /\ disturbances < MaxDisturbances
    /\ i # polling_interval
    /\ polling_interval' = i
    /\ disturbances' = disturbances + 1
    /\ UNCHANGED <<cache, store, wall, quiet, cycles, last, hist, evVars, dispVars, extVars>>

NextCache ==
    \/ \E data \in Samples \cup {IdleSample}, fault \in Faults,
          d \in {SleepTicks(polling_interval), Stall} :
            Poll(data, fault, d)
    \/ \E i \in PollingIntervals : SetPollingInterval(i)

-----------------------------------------------------------------------------
(* Dispatch: process_ups_event, run by one notifier process at a time *)

(* Bounds and inputs of the dispatch model *)
MaxDispatches == 1
MaxConfigured == 2
MaxSendFailures == 1
MaxNotified == 3

NtfyOrder == <<"n1", "n2">>
NtfyIds == {NtfyOrder[i] : i \in DOMAIN NtfyOrder}
WebhookOrder == <<"w1">>
WebhookIds == {WebhookOrder[i] : i \in DOMAIN WebhookOrder}
\* what a send does: it succeeds, it reports a failure, it raises
Outcomes == {"sent", "failed", "raised"}
\* the database operation that raises in a call, if any: in
\* store_event_in_database or in one of the configuration queries
StoreFaults == {"close", "insert"}
QueryFaults == {"notifications", "mail", "ntfy", "webhooks"}
DispatchFaults == {"none"} \cup StoreFaults \cup QueryFaults
DispatchUps == {"ups1"}

\* the event types upsmon reports that the durations are about, with the two
\* of the event store
NotifyTypes == EventTypes \cup {"COMMBAD", "NOCOMM", "COMMOK"}

NoDispatch == [ups |-> "ups1", type |-> "ONBATT", ret |-> "none", stored |-> FALSE,
               attempts |-> <<>>, fault |-> "none",
               now |-> 0, event_data |-> [battery_duration |-> 0, comm_duration |-> 0]]

InitNotify ==
    /\ settings = [t \in NotifyTypes |-> [enabled |-> FALSE, id_email |-> NULL]]
    /\ mail_enabled = FALSE
    /\ ntfy_configs = [n \in NtfyIds |-> [t \in NotifyTypes |-> FALSE]]
    /\ webhooks = [w \in WebhookIds |-> [t \in NotifyTypes |-> FALSE]]
    /\ HAS_NTFY \in BOOLEAN
    /\ HAS_WEBHOOK \in BOOLEAN
    /\ dispatch = NoDispatch
    /\ configured = 0
    /\ dispatches = 0

\* store_event_in_database run without interleaving: the open events of the
\* UPS are closed (unless close_previous_events fails, which is ignored), then
\* the new row is inserted (unless the insert fails, which returns False)
store_event_in_database(evs, u, t, now, fault) ==
    LET closed == IF fault = "close" THEN evs
                  ELSE CloseRows(evs, OpenEvents(evs, u), now)
    IN IF fault = "insert"
       THEN [events |-> closed, ret |-> FALSE]
       ELSE [events |-> Append(closed, NewEvent(u, t, now)), ret |-> TRUE]

\* variant: the dispatch goes on after a failed store
store_failed_continue(ret) == FALSE

\* process_ups_event: 'if not store_event_in_database(...): return False'
store_failed(ret) == ~ret

\* variant: rows are not filtered on enabled
get_enabled_notifications_all(event_type, fault) ==
    IF fault = "notifications" THEN <<>>
    ELSE IF settings[event_type].id_email # NULL
    THEN <<[channel |-> "email", config |-> settings[event_type].id_email]>>
    ELSE <<>>

\* get_enabled_notifications: the enabled row of the event type, if it has an
\* id_email; nothing when the query raises
get_enabled_notifications(event_type, fault) ==
    IF fault = "notifications" THEN <<>>
    ELSE IF settings[event_type].enabled /\ settings[event_type].id_email # NULL
    THEN <<[channel |-> "email", config |-> settings[event_type].id_email]>>
    ELSE <<>>

\* variant: no check for an enabled email configuration
verify_email_config_skipped(fault) == TRUE

\* verify_email_config: an enabled MailConfig row exists; False when the query
\* raises
verify_email_config(fault) == fault # "mail" /\ mail_enabled

\* the rows of a table whose notify_<event_type> flag is true, in id order
Flagged(table, ids, event_type, channel) ==
    LET rows == SelectSeq(ids, LAMBDA id : table[id][event_type])
    IN [i \in DOMAIN rows |-> [channel |-> channel, config |-> rows[i]]]

\* variant: every row, whatever its flag
get_enabled_ntfy_configs_all(event_type, fault) ==
    IF ~HAS_NTFY \/ fault = "ntfy" THEN <<>>
    ELSE Flagged([n \in NtfyIds |-> [t \in NotifyTypes |-> TRUE]], NtfyOrder,
                 event_type, "ntfy")

\* get_enabled_ntfy_configs: nothing without the module or when the query raises
get_enabled_ntfy_configs(event_type, fault) ==
    IF ~HAS_NTFY \/ fault = "ntfy" THEN <<>>
    ELSE Flagged(ntfy_configs, NtfyOrder, event_type, "ntfy")

\* send_event_notification of the webhook module: the webhooks enabled for the
\* event; when the query raises the function returns a failure and sends nothing
get_enabled_configs_for_event(event_type, fault) ==
    IF fault = "webhooks" THEN <<>>
    ELSE Flagged(webhooks, WebhookOrder, event_type, "webhook")

\* the sends process_ups_event queues for an event, in the order it makes them
Jobs(event_type, fault) ==
    LET notifications == get_enabled_notifications(event_type, fault)
        ntfy == get_enabled_ntfy_configs(event_type, fault)
    IN IF notifications = <<>> /\ ntfy = <<>> /\ ~HAS_WEBHOOK THEN <<>>
       ELSE (IF notifications # <<>> /\ verify_email_config(fault)
             THEN notifications ELSE <<>>)
            \o (IF HAS_NTFY THEN ntfy ELSE <<>>)
            \o (IF HAS_WEBHOOK THEN get_enabled_configs_for_event(event_type, fault)
                ELSE <<>>)

\* variant: an exception raised by a send reaches process_ups_event
escapes_uncaught(job, outcome) == outcome = "raised"

\* whether an exception raised in a send escapes to the try block of
\* process_ups_event: send_email_notification and send_ntfy_notification catch
\* everything, send_event_notification catches per webhook and as a whole, and
\* process_ups_event wraps the webhook call
escapes(job, outcome) == FALSE

\* variant: the sends stop at the first one that does not succeed
RECURSIVE run_jobs_until_failure(_, _, _)
run_jobs_until_failure(jobs, out, k) ==
    IF k > Len(jobs) THEN [attempts |-> <<>>, escaped |-> FALSE]
    ELSE LET attempt == [channel |-> jobs[k].channel, config |-> jobs[k].config,
                         outcome |-> out[k]]
         IN IF out[k] # "sent"
            THEN [attempts |-> <<attempt>>, escaped |-> FALSE]
            ELSE LET rest == run_jobs_until_failure(jobs, out, k + 1)
                 IN [attempts |-> <<attempt>> \o rest.attempts,
                     escaped |-> rest.escaped]

\* process_ups_event, the sends: each job from the k-th on is attempted in
\* turn, until an exception escapes
RECURSIVE run_jobs(_, _, _)
run_jobs(jobs, out, k) ==
    IF k > Len(jobs) THEN [attempts |-> <<>>, escaped |-> FALSE]
    ELSE LET attempt == [channel |-> jobs[k].channel, config |-> jobs[k].config,
                         outcome |-> out[k]]
         IN IF escapes(jobs[k], out[k])
            THEN [attempts |-> <<attempt>>, escaped |-> TRUE]
            ELSE LET rest == run_jobs(jobs, out, k + 1)
                 IN [attempts |-> <<attempt>> \o rest.attempts,
                     escaped |-> rest.escaped]

\* a datetime: seconds and whether it carries a tzinfo
\* 'now' of send_email_notification and send_ntfy_notification:
\* datetime.datetime.now().astimezone(local_tz), offset-aware
aware_now(now) == [t |-> now, aware |-> TRUE]

\* a DateTime column of ups_events as the SQLite dialect returns it: the value
\* store_event_in_database wrote, datetime.datetime.now().replace(microsecond=0),
\* without tzinfo
loaded(ts) == [t |-> ts, aware |-> FALSE]

\* a - b on datetimes: Python raises TypeError ("can't subtract offset-naive
\* and offset-aware datetimes") when exactly one of them has a tzinfo
total_seconds(a, b) == [raised |-> a.aware # b.aware, seconds |-> a.t - b.t]

\* int(duration_seconds / 60) of a duration that is not negative
duration_minutes(seconds) == seconds \div 60

\* rows of a UPS and event type, open (timestamp_tz_end NULL) or closed
EventsOf(evs, u, t, open) ==
    {i \in DOMAIN evs : /\ evs[i].ups_name = u
                        /\ evs[i].event_type = t
                        /\ (evs[i].timestamp_tz_end = NULL) = open}

\* order_by(timestamp_tz.desc()): the row ids of rows, latest first (among
\* equal timestamps, the row inserted last)
RECURSIVE order_by_desc(_, _)
order_by_desc(evs, rows) ==
    IF rows = {} THEN <<>>
    ELSE LET first == CHOOSE i \in rows : \A j \in rows :
                        \/ evs[j].timestamp_tz < evs[i].timestamp_tz
                        \/ (evs[j].timestamp_tz = evs[i].timestamp_tz /\ j <= i)
         IN <<first>> \o order_by_desc(evs, rows \ {first})

\* limit(n)
limit(rows, n) == SubSeq(rows, 1, IF Len(rows) < n THEN Len(rows) ELSE n)

\* the loop over the closed ONBATT events: the first that ended less than an
\* hour ago gives end - begin
RECURSIVE closed_event_duration(_, _, _)
closed_event_duration(evs, rows, now) ==
    IF rows = <<>> THEN [raised |-> FALSE, found |-> FALSE, minutes |-> 0]
    ELSE LET event == evs[Head(rows)]
             age == total_seconds(now, loaded(event.timestamp_tz_end))
             length == total_seconds(loaded(event.timestamp_tz_end),
                                     loaded(event.timestamp_tz))
         IN IF age.raised THEN [raised |-> TRUE, found |-> FALSE, minutes |-> 0]
            ELSE IF age.seconds < 3600
            THEN [raised |-> length.raised, found |-> ~length.raised,
                  minutes |-> duration_minutes(length.seconds)]
            ELSE closed_event_duration(evs, Tail(rows), now)

\* the battery_duration of an ONLINE notification, minutes (email and ntfy
\* compute it with the same code): from the latest open ONBATT event of the
\* UPS, else from its latest closed ones; default is the '0 min' of
\* get_ups_info, kept when the computation raises.  The tables of the model
\* have no device_uptime column, so the uptime estimate never applies.
battery_duration(evs, u, now, default) ==
    LET open == order_by_desc(evs, EventsOf(evs, u, "ONBATT", TRUE))
        closed == limit(order_by_desc(evs, EventsOf(evs, u, "ONBATT", FALSE)), 5)
    IN IF open # <<>>
       THEN LET d == total_seconds(aware_now(now), loaded(evs[Head(open)].timestamp_tz))
            IN IF d.raised THEN default ELSE duration_minutes(d.seconds)
       ELSE LET c == closed_event_duration(evs, closed, aware_now(now))
            IN IF c.raised \/ ~c.found THEN default ELSE c.minutes

\* the comm_duration of a COMMOK notification, minutes: from the latest open
\* COMMBAD event of the UPS; default otherwise
comm_duration(evs, u, now, default) ==
    LET open == order_by_desc(evs, EventsOf(evs, u, "COMMBAD", TRUE))
    IN IF open # <<>>
       THEN LET d == total_seconds(aware_now(now), loaded(evs[Head(open)].timestamp_tz))
            IN IF d.raised THEN default ELSE duration_minutes(d.seconds)
       ELSE default

\* the durations send_email_notification and send_ntfy_notification put in
\* the notification of an event, from the table as the store left it
event_data(evs, u, t, now) ==
    [battery_duration |-> IF t = "ONLINE" THEN battery_duration(evs, u, now, 0) ELSE 0,
     comm_duration |-> IF t = "COMMOK" THEN comm_duration(evs, u, now, 0) ELSE 0]

\* process_ups_event
process_ups_event(evs, u, t, now, fault, out) ==
    LET st == store_event_in_database(evs, u, t, now, fault)
        run == run_jobs(Jobs(t, fault), out, 1)
    IN IF store_failed(st.ret)
       THEN [events |-> st.events, ret |-> "False", stored |-> st.ret, attempts |-> <<>>,
             event_data |-> event_data(st.events, u, t, now)]
       ELSE [events |-> st.events, ret |-> IF run.escaped THEN "False" ELSE "True",
             stored |-> st.ret, attempts |-> run.attempts,
             event_data |-> event_data(st.events, u, t, now)]

\* upsmon runs the notifier for an event of a UPS; out is what each send does
ProcessEvent(u, t, fault) ==
    /\ \E out \in [1..Len(Jobs(t, fault)) -> Outcomes] :
        /\ Cardinality({k \in DOMAIN out : out[k] # "sent"}) <= MaxSendFailures
        /\ LET r == process_ups_event(events, u, t, clock, fault, out)
           IN /\ events' = r.events
              /\ dispatch' = [ups |-> u, type |-> t, ret |-> r.ret, stored |-> r.stored,
                              attempts |-> r.attempts, fault |-> fault,
                              now |-> clock, event_data |-> r.event_data]
    /\ dispatches' = dispatches + 1
    /\ UNCHANGED <<pc, call, clock, overlapped, evFaults, cacheVars, extVars,
                   settings, mail_enabled, ntfy_configs, webhooks, HAS_NTFY,
                   HAS_WEBHOOK, configured>>

\* the operator saves the notification settings of an event type (the
\* configuration is made before the events arrive)
SetNotification(t, enabled, id_email) ==
    /\ configured < MaxConfigured
    /\ dispatches = 0
    /\ settings[t] # [enabled |-> enabled, id_email |-> id_email]
    /\ settings' = [settings EXCEPT ![t] = [enabled |-> enabled, id_email |-> id_email]]
    /\ configured' = configured + 1
    /\ UNCHANGED <<evVars, cacheVars, extVars, mail_enabled, ntfy_configs, webhooks, HAS_NTFY,
                   HAS_WEBHOOK, dispatch, dispatches>>

\* the operator enables or disables the email configuration
SetMailEnabled(b) ==
    /\ configured < MaxConfigured
    /\ dispatches = 0
    /\ mail_enabled # b
    /\ mail_enabled' = b
    /\ configured' = configured + 1
    /\ UNCHANGED <<evVars, cacheVars, extVars, settings, ntfy_configs, webhooks, HAS_NTFY,
                   HAS_WEBHOOK, dispatch, dispatches>>

\* the operator sets the notify_<t> flag of an ntfy configuration
SetNtfyFlag(n, t, b) ==
    /\ configured < MaxConfigured
    /\ dispatches = 0
    /\ HAS_NTFY
    /\ ntfy_configs[n][t] # b
    /\ ntfy_configs' = [ntfy_configs EXCEPT ![n][t] = b]
    /\ configured' = configured + 1
    /\ UNCHANGED <<evVars, cacheVars, extVars, settings, mail_enabled, webhooks, HAS_NTFY,
                   HAS_WEBHOOK, dispatch, dispatches>>

\* the operator sets the notify_<t> flag of a webhook
SetWebhookFlag(w, t, b) ==
    /\ configured < MaxConfigured
    /\ dispatches = 0
    /\ HAS_WEBHOOK
    /\ webhooks[w][t] # b
    /\ webhooks' = [webhooks EXCEPT ![w][t] = b]
    /\ configured' = configured + 1
    /\ UNCHANGED <<evVars, cacheVars, extVars, settings, mail_enabled, ntfy_configs, HAS_NTFY,
                   HAS_WEBHOOK, dispatch, dispatches>>

NextDispatch ==
    \/ \E u \in DispatchUps, t \in EventTypes, fault \in DispatchFaults :
        dispatches < MaxDispatches /\ ProcessEvent(u, t, fault)
    \/ \E t \in EventTypes, b \in BOOLEAN, id \in {NULL, 1} : SetNotification(t, b, id)
    \/ SetMailEnabled(TRUE)
    \/ \E n \in NtfyIds, t \in EventTypes : SetNtfyFlag(n, t, TRUE)
    \/ \E w \in WebhookIds, t \in EventTypes : SetWebhookFlag(w, t, TRUE)

-----------------------------------------------------------------------------
(* Webhook send: WebhookNotifier of core/extranotifs/webhook/webhook.py.   *)
(* The URL names a host (not an IP address) and is well formed.            *)
MaxRetries == 1

ContentTypes == {"application/json", "text/plain"}
SigningSecrets == {"", "k"}
SigningAlgorithms == {"sha256", "sha512"}

\* WebhookNotifier.__init__: the options of a configuration that the send
\* depends on
WebhookConfigs ==
    [max_retries : 0..MaxRetries, direct_ip_connection : BOOLEAN,
     skip_hostname_validation : BOOLEAN, content_type : ContentTypes,
     signing_enabled : BOOLEAN, signing_secret : SigningSecrets,
     signing_algorithm : SigningAlgorithms,
     protocol : {"https"}, enforce_https : {FALSE}]

\* configurations that differ in the URL's protocol and in the connection
\* options; the URL is well formed and names a host
UrlConfigs ==
    [max_retries : {0}, direct_ip_connection : BOOLEAN,
     skip_hostname_validation : BOOLEAN, content_type : {"application/json"},
     signing_enabled : {FALSE}, signing_secret : {""},
     signing_algorithm : {"sha256"},
     protocol : {"http", "https"}, enforce_https : BOOLEAN]

\* what one attempt of the POST meets: a response with a status code, a refused
\* connection, a name that does not resolve, a failed TLS handshake, a timeout
\* of the connection or of the read
NetErrors == {"refused", "dns", "ssl", "connect_timeout", "read_timeout"}
Answers == [kind : {"response"}, status : {200, 404, 429, 503}]
               \cup [kind : NetErrors, status : {NULL}]

\* status_forcelist of the urllib3.Retry built by _configure_retry_adapter
status_forcelist == {429, 500, 502, 503, 504}

\* urllib3.Retry(total=max_retries, status_forcelist=..., allowed_methods=
\* ["POST"], raise_on_status=not direct_ip_connection)
configure_retry_adapter(cfg) ==
    [total |-> cfg.max_retries, raise_on_status |-> ~cfg.direct_ip_connection]

\* session.post through the adapter's Retry: attempt i meets answers[i].  A
\* response outside the forcelist is returned; after a forcelist response or a
\* connection, TLS or timeout error the attempt is repeated while Retry.total
\* lasts (every kind of failure counts against total); when it is used up a
\* forcelist response is raised as MaxRetryError if raise_on_status, else
\* returned, and an error is raised as MaxRetryError.
RECURSIVE urlopen(_, _, _)
urlopen(retries, answers, i) ==
    LET a == answers[i]
    IN IF a.kind = "response" /\ a.status \notin status_forcelist
       THEN [attempts |-> i, raised |-> FALSE, last |-> a]
       ELSE IF retries.total - 1 < 0
            THEN [attempts |-> i,
                  raised |-> a.kind # "response" \/ retries.raise_on_status,
                  last |-> a]
            ELSE urlopen([retries EXCEPT !.total = @ - 1], answers, i + 1)

\* requests.adapters.HTTPAdapter.send: the exception raised for a MaxRetryError,
\* by its reason
adapter_exception(reason) ==
    CASE reason.kind = "connect_timeout" -> "ConnectTimeout"
      [] reason.kind = "response" -> "RetryError"
      [] reason.kind = "ssl" -> "SSLError"
      [] OTHER -> "ConnectionError"

\* the classes of requests.exceptions an exception is an instance of
isinstance(exc, cls) ==
    cls \in (CASE exc = "ConnectTimeout" ->
                    {"ConnectTimeout", "ConnectionError", "Timeout", "RequestException"}
               [] exc = "ReadTimeout" -> {"ReadTimeout", "Timeout", "RequestException"}
               [] exc = "SSLError" -> {"SSLError", "ConnectionError", "RequestException"}
               [] exc = "RetryError" -> {"RetryError", "RequestException"}
               [] exc = "ConnectionError" -> {"ConnectionError", "RequestException"})

\* _validate_webhook_url; resolves: _validate_hostname_resolution succeeds
validate_webhook_url(cfg, resolves) ==
    IF cfg.enforce_https /\ cfg.protocol # "https"
    THEN [is_valid |-> FALSE, error_message |-> "HTTPS protocol is required for security"]
    ELSE IF ~cfg.skip_hostname_validation /\ ~resolves /\ ~cfg.direct_ip_connection
    THEN [is_valid |-> FALSE, error_message |-> "Hostname resolution failed"]
    ELSE [is_valid |-> TRUE, error_message |-> ""]

\* send_notification goes on although the URL is not valid
proceeds_despite(cfg, error_message) ==
    \/ cfg.skip_hostname_validation /\ error_message = "Hostname resolution failed"
    \/ cfg.direct_ip_connection

\* _prepare_payload for an ONBATT event without UPS data: the items of the dict
prepare_payload ==
    <<[key |-> "event_type", value |-> "ONBATT"],
      [key |-> "event_timestamp", value |-> "2024-01-02T22:59:00"],
      [key |-> "event_description", value |-> "UPS has switched to battery power"]>>

\* json.dumps(payload, separators=(item_separator, key_separator)): the text,
\* as the sequence of its pieces
RECURSIVE dumps_items(_, _, _)
dumps_items(payload, item_separator, key_separator) ==
    IF payload = <<>> THEN <<>>
    ELSE LET item == <<payload[1].key, key_separator, payload[1].value>>
         IN IF Len(payload) = 1 THEN item
            ELSE item \o <<item_separator>>
                      \o dumps_items(Tail(payload), item_separator, key_separator)

dumps(payload, item_separator, key_separator) ==
    <<"{">> \o dumps_items(payload, item_separator, key_separator) \o <<"}">>

\* hmac.new(secret, message, hash_func).hexdigest(): a different key, message
\* or hash function gives a different digest
hmac(secret, message, hash_func) ==
    [hash_func |-> hash_func, secret |-> secret, message |-> message]

\* _generate_signature
generate_signature(cfg, payload_str) ==
    IF cfg.signing_secret = "" THEN NULL
    ELSE LET hash_func == IF cfg.signing_algorithm = "sha256" THEN "sha256"
                          ELSE IF cfg.signing_algorithm = "sha512" THEN "sha512"
                          ELSE "sha256"
         IN hmac(cfg.signing_secret, payload_str, hash_func)

\* _prepare_headers, without custom headers: the value of the signing header
\* (NULL: the header is not set)
prepare_headers(cfg, payload_str) ==
    IF cfg.signing_enabled /\ cfg.signing_secret # "" /\ payload_str # <<>>
    THEN generate_signature(cfg, payload_str)
    ELSE NULL

\* the request of send_notification: for application/json the payload goes to
\* requests as json= (requests serializes it with the default separators of
\* json.dumps) and the string that is signed is made with separators
\* (',', ':'); for another content type the signed string is the data sent
prepare_request(cfg) ==
    LET payload == prepare_payload
        json_body == cfg.content_type = "application/json"
        payload_str == IF json_body THEN dumps(payload, ",", ":")
                       ELSE dumps(payload, ", ", ": ")
        body == IF json_body THEN dumps(payload, ", ", ": ") ELSE payload_str
    IN [signature |-> prepare_headers(cfg, payload_str), body |-> body]

NoRequest == [signature |-> NULL, body |-> <<>>]

\* the except clauses of send_notification, in their order; a name-resolution
\* failure is recognised by the text of the exception
error_result(exc, reason) ==
    IF isinstance(exc, "SSLError")
    THEN [success |-> FALSE, status_code |-> NULL, error_type |-> "ssl_error"]
    ELSE IF isinstance(exc, "ConnectionError")
    THEN [success |-> FALSE, status_code |-> NULL,
          error_type |-> IF reason.kind = "dns" THEN "dns_error" ELSE "connection_error"]
    ELSE IF isinstance(exc, "Timeout")
    THEN [success |-> FALSE, status_code |-> NULL, error_type |-> "timeout_error"]
    ELSE [success |-> FALSE, status_code |-> NULL, error_type |-> "none"]

\* WebhookNotifier.send_notification: what the call did and returned
send_notification(cfg, resolves, answers) ==
    LET v == validate_webhook_url(cfg, resolves)
        r == urlopen(configure_retry_adapter(cfg), answers, 1)
    IN IF ~v.is_valid /\ ~proceeds_despite(cfg, v.error_message)
       THEN [called |-> TRUE, config |-> cfg, resolves |-> resolves, met |-> <<>>,
             request |-> NoRequest,
             result |-> [success |-> FALSE, status_code |-> NULL,
                         error_type |-> "url_validation_error"]]
       ELSE [called |-> TRUE, config |-> cfg, resolves |-> resolves,
             met |-> SubSeq(answers, 1, r.attempts),
             request |-> prepare_request(cfg),
             result |-> IF r.raised THEN error_result(adapter_exception(r.last), r.last)
                        ELSE [success |-> r.last.status < 400,
                              status_code |-> r.last.status, error_type |-> "none"]]

NoHook ==
    [called |-> FALSE, config |-> NULL, resolves |-> TRUE, met |-> <<>>,
     request |-> NoRequest, result |-> NULL]

\* a webhook is sent to an endpoint that answers the attempts with answers;
\* one send is followed
SendWebhook(cfg, resolves, answers) ==
    /\ ~hook.called
    /\ hook' = send_notification(cfg, resolves, answers)
    /\ UNCHANGED <<evVars, cacheVars, dispVars, mailer, sockets, poller, reader, parsed, flushers, push, tested>>

NextWebhook ==
    \E cfg \in WebhookConfigs, resolves \in BOOLEAN,
       answers \in [1..(MaxRetries + 1) -> Answers] :
        SendWebhook(cfg, resolves, answers)

\* sends to URLs of either protocol
NextHttps ==
    \E cfg \in UrlConfigs, resolves \in BOOLEAN,
       answers \in [1..(MaxRetries + 1) -> Answers] :
        SendWebhook(cfg, resolves, answers)

-----------------------------------------------------------------------------
(* Email: core/mail/mail.py.  time.time() is counted in ticks.             *)
MaxMailCalls == 3
MaxMailTicks == 5

\* _test_notification_cooldown
test_notification_cooldown == 2 * Second
\* time.time() when the server has started
MailStart == 10 * Second

\* the MailConfig row a call finds and the state of its encrypted password:
\* none (NULL column), undecryptable (encrypted with another key), ok
Passwords == {"none", "undecryptable", "ok"}
NoMailConfig == [exists |-> FALSE, enabled |-> FALSE, password |-> "none"]
MailConfigs == {NoMailConfig} \cup [exists : {TRUE}, enabled : BOOLEAN, password : Passwords]
\* the NotificationSettings row of the event type
SettingsRows == {"none", "disabled", "enabled"}

\* MailConfig.password: Fernet.decrypt raises InvalidToken, whose text is
\* empty, for a token of another key
password(cfg) ==
    [raised |-> cfg.password = "undecryptable", text |-> "",
     value |-> IF cfg.password = "ok" THEN "secret" ELSE "None"]

\* send_email through msmtp
send_email(smtp_ok) ==
    IF smtp_ok THEN [success |-> TRUE, message |-> "Email sent successfully"]
    ELSE [success |-> FALSE, message |-> "Failed to send email"]

\* EmailNotifier.send_notification; sent: send_email was called
EmailNotifier_send_notification(is_test, row, cfg, smtp_ok) ==
    IF row = "none"
    THEN [success |-> FALSE, message |-> "No notification settings found",
          read_password |-> FALSE, sent |-> FALSE]
    ELSE IF row = "disabled" /\ ~is_test
    THEN [success |-> FALSE, message |-> "Notifications are disabled",
          read_password |-> FALSE, sent |-> FALSE]
    ELSE IF ~cfg.exists \/ (~cfg.enabled /\ ~is_test)
    THEN [success |-> FALSE, message |-> "Email configuration not found or disabled",
          read_password |-> FALSE, sent |-> FALSE]
    ELSE IF password(cfg).raised
    THEN [success |-> FALSE, message |-> password(cfg).text,
          read_password |-> TRUE, sent |-> FALSE]
    ELSE [success |-> send_email(smtp_ok).success, message |-> send_email(smtp_ok).message,
          read_password |-> TRUE, sent |-> TRUE]

\* the debounce of test_notification
test_notification_too_soon(current_time, last_test_notification_time) ==
    current_time - last_test_notification_time < test_notification_cooldown

\* variant: the time of an accepted call is not kept
test_notification_unrecorded(m, row, cfg, smtp_ok) ==
    LET current_time == m.now
    IN IF test_notification_too_soon(current_time, m.last_test_notification_time)
       THEN [last_test_notification_time |-> m.last_test_notification_time,
             accepted |-> FALSE,
             result |-> [success |-> FALSE,
                         message |-> "Please wait a few seconds before sending another test notification",
                         read_password |-> FALSE, sent |-> FALSE]]
       ELSE [last_test_notification_time |-> m.last_test_notification_time,
             accepted |-> TRUE,
             result |-> EmailNotifier_send_notification(TRUE, row, cfg, smtp_ok)]

\* test_notification
test_notification(m, row, cfg, smtp_ok) ==
    LET current_time == m.now
    IN IF test_notification_too_soon(current_time, m.last_test_notification_time)
       THEN [last_test_notification_time |-> m.last_test_notification_time,
             accepted |-> FALSE,
             result |-> [success |-> FALSE,
                         message |-> "Please wait a few seconds before sending another test notification",
                         read_password |-> FALSE, sent |-> FALSE]]
       ELSE [last_test_notification_time |-> current_time,
             accepted |-> TRUE,
             result |-> EmailNotifier_send_notification(TRUE, row, cfg, smtp_ok)]

\* test_email_config with the required fields; provided: the form carries a
\* password, else the stored one is used
test_email_config(provided, cfg, smtp_ok) ==
    IF ~provided /\ cfg.exists /\ password(cfg).raised
    THEN [success |-> FALSE,
          message |-> "Stored password cannot be decrypted with the current encryption key. Please enter a new password.",
          read_password |-> TRUE, sent |-> FALSE]
    ELSE IF ~provided /\ (~cfg.exists \/ password(cfg).value = "None")
    THEN [success |-> FALSE,
          message |-> "No password provided and no valid password stored. Please enter a password.",
          read_password |-> cfg.exists, sent |-> FALSE]
    ELSE IF smtp_ok
    THEN [success |-> TRUE, message |-> "Test email sent successfully",
          read_password |-> ~provided, sent |-> TRUE]
    ELSE [success |-> FALSE, message |-> "Failed to send test email",
          read_password |-> ~provided, sent |-> TRUE]

NoMailCall ==
    [fn |-> "none", at |-> 0, accepted |-> FALSE, is_test |-> FALSE, row |-> "none",
     provided |-> FALSE, config |-> NoMailConfig,
     result |-> [success |-> FALSE, message |-> "", read_password |-> FALSE,
                 sent |-> FALSE]]

\* the module as imported: _last_test_notification_time = 0
NewMailer ==
    [now |-> MailStart, last_test_notification_time |-> 0, accepted |-> <<>>,
     rejected |-> 0, calls |-> 0, last |-> NoMailCall]

\* a test notification is requested (the handler runs to its return without
\* yielding between the check and the assignment of the debounce)
TestNotification(row, cfg, smtp_ok) ==
    /\ mailer.calls < MaxMailCalls
    /\ LET r == test_notification(mailer, row, cfg, smtp_ok)
       IN mailer' = [mailer EXCEPT
                        !.last_test_notification_time = r.last_test_notification_time,
                        !.accepted = IF r.accepted THEN Append(@, mailer.now) ELSE @,
                        !.rejected = IF r.accepted THEN @ ELSE @ + 1,
                        !.calls = @ + 1,
                        !.last = [fn |-> "test_notification", at |-> mailer.now,
                                  accepted |-> r.accepted, is_test |-> TRUE, row |-> row,
                                  provided |-> FALSE, config |-> cfg, result |-> r.result]]
    /\ UNCHANGED <<evVars, cacheVars, dispVars, hook, sockets, poller, reader, parsed, flushers, push, tested>>

\* an event is notified by email
SendNotification(row, cfg, smtp_ok) ==
    /\ mailer.calls < MaxMailCalls
    /\ mailer' = [mailer EXCEPT
                     !.calls = @ + 1,
                     !.last = [fn |-> "send_notification", at |-> mailer.now,
                               accepted |-> TRUE, is_test |-> FALSE, row |-> row,
                               provided |-> FALSE, config |-> cfg,
                               result |-> EmailNotifier_send_notification(FALSE, row, cfg,
                                                                          smtp_ok)]]
    /\ UNCHANGED <<evVars, cacheVars, dispVars, hook, sockets, poller, reader, parsed, flushers, push, tested>>

\* the configuration form is tested
TestEmailConfig(provided, cfg, smtp_ok) ==
    /\ mailer.calls < MaxMailCalls
    /\ mailer' = [mailer EXCEPT
                     !.calls = @ + 1,
                     !.last = [fn |-> "test_email_config", at |-> mailer.now,
                               accepted |-> TRUE, is_test |-> TRUE, row |-> "none",
                               provided |-> provided, config |-> cfg,
                               result |-> test_email_config(provided, cfg, smtp_ok)]]
    /\ UNCHANGED <<evVars, cacheVars, dispVars, hook, sockets, poller, reader, parsed, flushers, push, tested>>

\* half a second passes
MailTick ==
    /\ mailer.now < MailStart + MaxMailTicks
    /\ mailer' = [mailer EXCEPT !.now = @ + 1]
    /\ UNCHANGED <<evVars, cacheVars, dispVars, hook, sockets, poller, reader, parsed, flushers, push, tested>>

NextMail ==
    \/ \E row \in SettingsRows, cfg \in MailConfigs, smtp_ok \in BOOLEAN :
        TestNotification(row, cfg, smtp_ok)
    \/ \E row \in SettingsRows, cfg \in MailConfigs, smtp_ok \in BOOLEAN :
        SendNotification(row, cfg, smtp_ok)
    \/ \E provided \in BOOLEAN, cfg \in MailConfigs, smtp_ok \in BOOLEAN :
        TestEmailConfig(provided, cfg, smtp_ok)
    \/ MailTick

-----------------------------------------------------------------------------
(* Real-time broadcast: broadcast_cache_update and the websocket handlers  *)
(* of core/db/ups/cache.py.  The metrics of these payloads are counted in  *)
(* halves of a percent, watt or volt.                                      *)
MaxSamples == 3
MaxSocketEvents == 3

PayloadUnit == 2
Sids == {"sid1", "sid2"}

\* a reading on line power: load 42 %, charge 100 %, 100 W, 230 V
SteadyReading ==
    [ups_status |-> "OL", ups_load |-> 84, battery_charge |-> 200,
     ups_realpower |-> 200, input_voltage |-> 460]

\* readings of get_ups_data that differ from it in the status, in one metric
\* by 0.5, 1 or 1.5, in two metrics by 0.5, or by a metric the UPS leaves out
Readings ==
    {SteadyReading,
     [SteadyReading EXCEPT !.ups_status = "OB"],
     [SteadyReading EXCEPT !.ups_load = 85],
     [SteadyReading EXCEPT !.ups_load = 86],
     [SteadyReading EXCEPT !.battery_charge = 198],
     [SteadyReading EXCEPT !.battery_charge = NULL],
     [SteadyReading EXCEPT !.ups_realpower = 202],
     [SteadyReading EXCEPT !.input_voltage = 463],
     [SteadyReading EXCEPT !.ups_load = 85, !.input_voltage = 461]}

\* {'timestamp': datetime.now().isoformat(), **data}
broadcast_payload(data, now) ==
    [timestamp |-> now, ups_status |-> data.ups_status, ups_load |-> data.ups_load,
     battery_charge |-> data.battery_charge, ups_realpower |-> data.ups_realpower,
     input_voltage |-> data.input_voltage]

\* UPSDataCache.get_latest_cache_data: <<>> is the empty dict
get_latest_cache_data(c) == c.last_broadcast

\* variant: the connect handler answers like the request handler
handle_websocket_connect_always(c) ==
    LET latest_data == get_latest_cache_data(c)
    IN <<[event |-> "cache_update", data |-> latest_data]>>

\* handle_websocket_connect: the messages emitted to the room of the client
handle_websocket_connect(c) ==
    LET latest_data == get_latest_cache_data(c)
    IN IF latest_data # <<>>
       THEN <<[event |-> "cache_update", data |-> latest_data]>>
       ELSE <<>>

\* handle_request_cache_data: the messages emitted to the room of the client
handle_request_cache_data(c) ==
    LET latest_data == get_latest_cache_data(c)
    IN <<[event |-> "cache_update", data |-> latest_data]>>

\* sockets: the connected clients and, as history, the number of samples so
\* far, the number of client events, what the last handler found in
\* last_broadcast and emitted, and the last two calls of broadcast_cache_update
NoSockets ==
    [clients |-> {}, samples |-> 0, events |-> 0,
     last |-> [kind |-> "none", sid |-> "", before |-> <<>>, emitted |-> <<>>],
     calls |-> <<>>]

\* UPSDataCache.broadcast_cache_update, called by add with a reading
Broadcast(data) ==
    /\ sockets.samples < MaxSamples
    /\ LET broadcast_data == broadcast_payload(data, sockets.samples + 1)
           r == cache_update(cache.last_broadcast, broadcast_data, PayloadUnit)
           emitted == IF r.emit
                      THEN <<[event |-> "cache_update", data |-> <<broadcast_data>>]>>
                      ELSE <<>>
           this == [data |-> broadcast_data, emit |-> r.emit]
       IN /\ cache' = [cache EXCEPT !.last_broadcast = r.last_broadcast]
          /\ sockets' = [sockets EXCEPT
                            !.samples = @ + 1,
                            !.last = [kind |-> "broadcast", sid |-> "",
                                      before |-> cache.last_broadcast,
                                      emitted |-> emitted],
                            !.calls = IF @ = <<>> THEN <<this>> ELSE <<@[Len(@)], this>>]
    /\ UNCHANGED <<evVars, store, polling_interval, wall, quiet, cycles, disturbances,
                   last, hist, dispVars, hook, mailer, poller, reader, parsed, flushers, push, tested>>

\* a client connects
Connect(sid) ==
    /\ sockets.events < MaxSocketEvents
    /\ sid \notin sockets.clients
    /\ sockets' = [sockets EXCEPT
                      !.clients = @ \cup {sid},
                      !.events = @ + 1,
                      !.last = [kind |-> "connect", sid |-> sid,
                                before |-> cache.last_broadcast,
                                emitted |-> handle_websocket_connect(cache)]]
    /\ UNCHANGED <<evVars, cacheVars, dispVars, hook, mailer, poller, reader, parsed, flushers, push, tested>>

\* a connected client sends request_cache_data
RequestCacheData(sid) ==
    /\ sockets.events < MaxSocketEvents
    /\ sid \in sockets.clients
    /\ sockets' = [sockets EXCEPT
                      !.events = @ + 1,
                      !.last = [kind |-> "request", sid |-> sid,
                                before |-> cache.last_broadcast,
                                emitted |-> handle_request_cache_data(cache)]]
    /\ UNCHANGED <<evVars, cacheVars, dispVars, hook, mailer, poller, reader, parsed, flushers, push, tested>>

\* handle_websocket_disconnect
Disconnect(sid) ==
    /\ sockets.events < MaxSocketEvents
    /\ sid \in sockets.clients
    /\ sockets' = [sockets EXCEPT
                      !.clients = @ \ {sid},
                      !.events = @ + 1,
                      !.last = [kind |-> "disconnect", sid |-> sid,
                                before |-> cache.last_broadcast, emitted |-> <<>>]]
    /\ UNCHANGED <<evVars, cacheVars, dispVars, hook, mailer, poller, reader, parsed, flushers, push, tested>>

NextSockets ==
    \/ \E data \in Readings : Broadcast(data)
    \/ \E sid \in Sids : Connect(sid)
    \/ \E sid \in Sids : RequestCacheData(sid)
    \/ \E sid \in Sids : Disconnect(sid)

-----------------------------------------------------------------------------
(* The polling loop: polling_thread of app.py, with save_ups_data reduced  *)
(* to what it returns.  Sleeps are in seconds.                             *)
MaxLoopCycles == 10

\* what an iteration meets: the read succeeds; get_ups_data raises inside
\* save_ups_data; get_ups_model raises before save_ups_data is called
LoopOutcomes == {"ok", "read_failed", "escaped"}
\* VariableConfig.polling_interval as the iteration finds it (NULL: the query
\* raises)
ConfiguredIntervals == {NULL, 0, 1, 2, 30, 60, 120}

\* save_ups_data: every exception, a failed read included, is caught and
\* returned as (False, error_msg)
save_ups_data(outcome) ==
    IF outcome = "read_failed" THEN [success |-> FALSE, reads |-> 1]
    ELSE [success |-> TRUE, reads |-> 1]

\* max(1, min(60, polling_interval)), 1 when the configuration cannot be read
clamp_polling_interval(config_interval) ==
    LET interval == IF config_interval = NULL THEN 1 ELSE config_interval
        capped == IF interval < 60 THEN interval ELSE 60
    IN IF capped > 1 THEN capped ELSE 1

\* min(300, 2 ** failures)
back_off(failures) == IF 2 ^ failures < 300 THEN 2 ^ failures ELSE 300

\* one iteration of the while loop of polling_thread
polling_iteration(failures, outcome, config_interval) ==
    IF outcome = "escaped"
    THEN [failures |-> failures + 1, sleep |-> back_off(failures + 1), reads |-> 0,
          running |-> TRUE]
    ELSE LET r == save_ups_data(outcome)
             f == IF ~r.success THEN failures + 1 ELSE 0
         IN [failures |-> f, sleep |-> clamp_polling_interval(config_interval),
             reads |-> r.reads, running |-> TRUE]

\* polling_thread as started: failures = 0
NewPoller ==
    [failures |-> 0, running |-> TRUE, iterations |-> 0, failed_reads |-> 0,
     last |-> [outcome |-> "none", configured |-> NULL, sleep |-> 0, reads |-> 0]]

\* an iteration of the loop; failed_reads: the failed reads in a row so far
PollingIteration(outcome, config_interval) ==
    /\ poller.running
    /\ poller.iterations < MaxLoopCycles
    /\ LET r == polling_iteration(poller.failures, outcome, config_interval)
       IN poller' = [failures |-> r.failures, running |-> r.running,
                     iterations |-> poller.iterations + 1,
                     failed_reads |-> IF outcome = "read_failed"
                                      THEN poller.failed_reads + 1
                                      ELSE IF outcome = "ok" THEN 0
                                      ELSE poller.failed_reads,
                     last |-> [outcome |-> outcome, configured |-> config_interval,
                               sleep |-> r.sleep, reads |-> r.reads]]
    /\ UNCHANGED <<evVars, cacheVars, dispVars, hook, mailer, sockets, reader, parsed, flushers, push, tested>>

NextPoller ==
    \E outcome \in LoopOutcomes, config_interval \in ConfiguredIntervals :
        PollingIteration(outcome, config_interval)

-----------------------------------------------------------------------------
(* The reader: get_ups_data of core/db/ups/data.py and calculate_realpower *)
(* of core/db/ups/utils.py.  ups.load is counted in tenths of a percent,   *)
(* ups.realpower.nominal in watts, ups.realpower in hundredths of a watt.  *)

\* a value that float() rejects
NaN == -2
\* core.settings.UPS_REALPOWER_NOMINAL, watts
UPS_REALPOWER_NOMINAL == 1000

\* what upsc prints (NULL: the variable is not reported)
ReportedLoads == {NULL, NaN, 0, 333, 500}
ReportedNominals == {NULL, 0, 400, 401}
ReportedRealpowers == {NULL, 0, 18000}
RawData == [ups_load : ReportedLoads, ups_realpower_nominal : ReportedNominals,
            ups_realpower : ReportedRealpowers]
\* how subprocess.run ends: exit code 0, another exit code, TimeoutExpired
RunOutcomes == {"ok", "nonzero", "timeout"}

\* variant: computes for any load and nominal power
calculate_realpower_always(data) ==
    IF data.ups_realpower = NULL \/ data.ups_realpower = 0
    THEN IF data.ups_load = NaN THEN data
         ELSE LET load_percent == IF data.ups_load # NULL THEN data.ups_load ELSE 0
                  nominal_power == IF data.ups_realpower_nominal # NULL
                                   THEN data.ups_realpower_nominal
                                   ELSE UPS_REALPOWER_NOMINAL
              IN [data EXCEPT !.ups_realpower =
                                  RoundHalfEven(nominal_power * load_percent, 10)]
    ELSE data

\* calculate_realpower: (nominal_power * load_percent) / 100 rounded to two
\* decimals, when ups.realpower is missing or 0 and load and nominal power are
\* positive; a load that is not a number raises inside and leaves the data
calculate_realpower(data) ==
    IF data.ups_realpower = NULL \/ data.ups_realpower = 0
    THEN IF data.ups_load = NaN THEN data
         ELSE LET load_percent == IF data.ups_load # NULL THEN data.ups_load ELSE 0
                  nominal_power == IF data.ups_realpower_nominal # NULL
                                   THEN data.ups_realpower_nominal
                                   ELSE UPS_REALPOWER_NOMINAL
              IN IF load_percent > 0 /\ nominal_power > 0
                 THEN [data EXCEPT !.ups_realpower =
                                       RoundHalfEven(nominal_power * load_percent, 10)]
                 ELSE data
    ELSE data

\* the classes of core.db.ups.errors an exception is an instance of
ups_isinstance(exc, cls) ==
    cls \in (CASE exc = "UPSConnectionError" -> {"UPSConnectionError", "Exception"}
               [] exc = "UPSDataError" -> {"UPSDataError", "Exception"}
               [] exc = "TimeoutExpired" -> {"TimeoutExpired", "Exception"}
               [] OTHER -> {})

\* the body of the try of get_ups_data: what it raises ("none": it returns)
read_ups(has_params, run, raw) ==
    IF ~has_params THEN [raised |-> "none", status |-> "ERROR", data |-> raw]
    ELSE IF run = "timeout" THEN [raised |-> "TimeoutExpired", status |-> "", data |-> raw]
    ELSE IF run = "nonzero"
    THEN [raised |-> "UPSConnectionError", status |-> "", data |-> raw]
    ELSE [raised |-> "none", status |-> "OL", data |-> calculate_realpower(raw)]

\* get_ups_data: whatever the body raises is raised again as UPSDataError
get_ups_data(has_params, run, raw) ==
    LET r == read_ups(has_params, run, raw)
    IN IF ups_isinstance(r.raised, "Exception")
       THEN [r EXCEPT !.raised = "UPSDataError"]
       ELSE r

NoRead ==
    [called |-> FALSE, has_params |-> TRUE, run |-> "ok",
     raw |-> [ups_load |-> NULL, ups_realpower_nominal |-> NULL, ups_realpower |-> NULL],
     result |-> [raised |-> "none", status |-> "",
                 data |-> [ups_load |-> NULL, ups_realpower_nominal |-> NULL,
                           ups_realpower |-> NULL]]]

\* the UPS is read
ReadUps(has_params, run, raw) ==
    /\ reader' = [called |-> TRUE, has_params |-> has_params, run |-> run, raw |-> raw,
                  result |-> get_ups_data(has_params, run, raw)]
    /\ UNCHANGED <<evVars, cacheVars, dispVars, hook, mailer, sockets, poller, parsed, flushers, push, tested>>

NextReader ==
    \E has_params \in BOOLEAN, run \in RunOutcomes, raw \in RawData :
        ReadUps(has_params, run, raw)

(***************************************************************************)
(* Event ingestion: parse_input_args (ups_notifier.py).  A string is the    *)
(* sequence of its whitespace-separated words; args is a sequence of        *)
(* strings.                                                                 *)
(***************************************************************************)
MaxChunks == 2

\* the event types main knows a message for
event_messages ==
    {"ONLINE", "ONBATT", "LOWBATT", "FSD", "COMMOK", "COMMBAD", "SHUTDOWN", "REPLBATT",
     "NOCOMM", "NOPARENT", "CAL", "TRIM", "BOOST", "OFF", "OVERLOAD", "BYPASS", "NOBATT",
     "DATAOLD"}

\* the regular expressions of the alternative format, in the order they are
\* tried: ^UPS\s+([^\s]+).*w1\s+...\s+wk, and the event type each one gives
patterns ==
    << [words |-> <<"on", "battery">>, event_type |-> "ONBATT"],
       [words |-> <<"on", "line", "power">>, event_type |-> "ONLINE"],
       [words |-> <<"low", "battery">>, event_type |-> "LOWBATT"],
       [words |-> <<"communication", "restored">>, event_type |-> "COMMOK"],
       [words |-> <<"communication", "lost">>, event_type |-> "COMMBAD"],
       [words |-> <<"forced", "shutdown">>, event_type |-> "FSD"],
       [words |-> <<"battery", "needs", "replacing">>, event_type |-> "REPLBATT"],
       [words |-> <<"shutdown", "in", "progress">>, event_type |-> "SHUTDOWN"],
       [words |-> <<"no", "communication">>, event_type |-> "NOCOMM"],
       [words |-> <<"parent", "process">>, event_type |-> "NOPARENT"] >>

\* the words of the modelled vocabulary that end with another word of it, and
\* what precedes the ending (no word of the vocabulary begins with another)
Endings ==
    { [word |-> "station", ending |-> "on", head |-> "stati"],
      [word |-> "communication", ending |-> "on", head |-> "communicati"] }

EndsWith(word, ending) ==
    word = ending \/ \E e \in Endings : e.word = word /\ e.ending = ending

head(word, ending) ==
    (CHOOSE e \in Endings : e.word = word /\ e.ending = ending).head

\* w1\s+...\s+wk matches with w1 ending the i-th word of the text
match_at(text, words, i) ==
    /\ i + Len(words) - 1 <= Len(text)
    /\ EndsWith(text[i], words[1])
    /\ \A j \in 2..Len(words) : text[i + j - 1] = words[j]

\* what re.search finds
NoMatch == [found |-> FALSE, group |-> ""]

\* re.search(r"^UPS\s+([^\s]+).*w1\s+...\s+wk", text): the group is the whole
\* word after UPS when the wording follows it, and the word's head when
\* the wording begins inside that word
re_search(words, text) ==
    IF Len(text) < 2 \/ text[1] # "UPS" THEN NoMatch
    ELSE IF \E i \in 3..Len(text) : match_at(text, words, i)
         THEN [found |-> TRUE, group |-> text[2]]
    ELSE IF text[2] # words[1] /\ match_at(text, words, 2)
         THEN [found |-> TRUE, group |-> head(text[2], words[1])]
    ELSE NoMatch

\* (None, None)
NoneNone == [none |-> TRUE, ups_name |-> <<>>, event_type |-> <<>>]

\* as try_patterns, but the matched wording is returned for the event type
RECURSIVE try_patterns_wording(_, _)
try_patterns_wording(text, k) ==
    IF k > Len(patterns) THEN NoneNone
    ELSE IF re_search(patterns[k].words, text).found
         THEN [none |-> FALSE, ups_name |-> <<re_search(patterns[k].words, text).group>>,
               event_type |-> patterns[k].words]
    ELSE try_patterns_wording(text, k + 1)

\* the patterns from the k-th on, tried in order
RECURSIVE try_patterns(_, _)
try_patterns(text, k) ==
    IF k > Len(patterns) THEN NoneNone
    ELSE IF re_search(patterns[k].words, text).found
         THEN [none |-> FALSE, ups_name |-> <<re_search(patterns[k].words, text).group>>,
               event_type |-> <<patterns[k].event_type>>]
    ELSE try_patterns(text, k + 1)

\* args[0].startswith("UPS ")
startswith_UPS(text) == Len(text) >= 2 /\ text[1] = "UPS"

parse_input_args(args) ==
    IF Len(args) < 1 THEN NoneNone
    ELSE IF Len(args) = 1 /\ startswith_UPS(args[1]) THEN try_patterns(args[1], 1)
    ELSE IF Len(args) >= 2
         THEN [none |-> FALSE, ups_name |-> args[1], event_type |-> args[2]]
    ELSE NoneNone

\* main: "if not ups_name or not event_type: sys.exit(1)"
main_accepts(result) == ~result.none /\ result.ups_name # <<>> /\ result.event_type # <<>>

\* the arguments upsmon or a caller may pass
ArgNames == {"ups@localhost", "station"}
ArgTypes == event_messages \cup {"onbatt", "FOO"}
Chunks ==
    {patterns[k].words : k \in 1..Len(patterns)} \cup {<<"is">>, <<"battery">>, <<"communication">>}

RECURSIVE Wordings(_)
Wordings(n) ==
    IF n = 0 THEN {<<>>}
    ELSE Wordings(n - 1) \cup {w \o c : w \in Wordings(n - 1), c \in Chunks}

FreeTexts == {<<"UPS", n>> \o w : n \in ArgNames, w \in Wordings(MaxChunks)}
                 \cup {<<"UPS">>, <<"status", "of", "station">>}

Args ==
    {<<>>}
        \cup {<<text>> : text \in FreeTexts}
        \cup {<<n, t>> : n \in {<<>>} \cup {<<a>> : a \in ArgNames},
                         t \in {<<>>} \cup {<<a>> : a \in ArgTypes}}
        \cup {<<<<"ups@localhost">>, <<"ONBATT">>, <<"extra">>>>,
              <<<<"UPS", "station", "on", "battery">>, <<"ONBATT">>>>}

NoParse == [called |-> FALSE, args |-> <<>>, result |-> NoneNone, accepted |-> FALSE]

\* the script is called with arguments; one call is followed
ParseInputArgs(args) ==
    /\ ~parsed.called
    /\ parsed' = [called |-> TRUE, args |-> args, result |-> parse_input_args(args),
                  accepted |-> main_accepts(parse_input_args(args))]
    /\ UNCHANGED <<evVars, cacheVars, dispVars, hook, mailer, sockets, poller, reader, flushers, push, tested>>

NextParser ==
    \E args \in Args : ParseInputArgs(args)

(***************************************************************************)
(* calculate_and_save_averages called by several threads on the same       *)
(* cache (cache.py).  A call is followed statement by statement where it    *)
(* touches what the threads share: the part up to the record, the           *)
(* "with data_lock" block, the part after it.                               *)
(***************************************************************************)
MaxFlushSamples == 2
MaxFlushTicks == 1
MaxFlushCalls == 3

Threads == {1, 2}

\* the record a call has built, if any
NoRecord == <<>>

\* calculate_and_save_averages up to "with data_lock": next_hour is set,
\* nothing is built unless it is save time and there are averages; else the
\* record is built from the buffer and the hourly block is run
prepare_record(c, st, current_time) ==
    LET r == calculate_and_save_averages(c, st, current_time, "none") IN
    IF r.ret = "False"
    THEN [cache |-> r.cache, dynamic_data |-> NoRecord]
    ELSE [cache |-> [c EXCEPT !.next_hour = r.cache.next_hour,
                              !.hourly_data = r.cache.hourly_data],
          dynamic_data |-> <<r.store[Len(st) + 1]>>]

\* data_lock can be acquired
data_lock_free(holder) == holder = 0

\* db.session.add(dynamic_data); db.session.commit()
commit_record(st, dynamic_data) == Append(st, dynamic_data[1])

\* calculate_and_save_averages after the "with data_lock" block: the buffer
\* is emptied, next_save_time moved, the daily aggregation run when due
finish_save(c, st, current_time) ==
    LET c3 == after_save(c, current_time)
        daily == should_aggregate_daily(c3, current_time)
    IN [cache |-> IF daily
                  THEN [c3 EXCEPT !.last_daily_aggregation = LocalDate(current_time)]
                  ELSE c3,
        store |-> IF daily THEN aggregate_daily_data(st, current_time, TRUE) ELSE st]

IdleThread == [pc |-> "idle", current_time |-> NULL, dynamic_data |-> NoRecord]

\* cache, store and clock are those of the application; holder is the thread
\* inside "with data_lock" (0: none); added, ticks and calls are history
NewFlushers ==
    [cache |-> NewCache(CACHE_SECONDS), store |-> <<>>, clock |-> QuietStart,
     holder |-> 0, th |-> [t \in Threads |-> IdleThread],
     added |-> <<>>, ticks |-> 0, calls |-> 0]

\* a sample is added to the buffer; reading the UPS took a second
FlushAdd(data) ==
    /\ Len(flushers.added) < MaxFlushSamples
    /\ flushers' = [flushers EXCEPT
                       !.cache = add(flushers.cache, flushers.clock, data),
                       !.added = Append(flushers.added, flushers.clock),
                       !.clock = flushers.clock + Second]
    /\ UNCHANGED <<evVars, cacheVars, dispVars, hook, mailer, sockets, poller, reader, parsed, push, tested>>

\* a minute passes
FlushTick ==
    /\ flushers.ticks < MaxFlushTicks
    /\ flushers' = [flushers EXCEPT !.clock = flushers.clock + Minute,
                                    !.ticks = flushers.ticks + 1]
    /\ UNCHANGED <<evVars, cacheVars, dispVars, hook, mailer, sockets, poller, reader, parsed, push, tested>>

\* thread t calls calculate_and_save_averages(current_time)
FlushCall(t) ==
    /\ flushers.th[t].pc = "idle"
    /\ flushers.calls < MaxFlushCalls
    /\ flushers' = [flushers EXCEPT
                       !.th[t] = [pc |-> "prepare", current_time |-> flushers.clock,
                                  dynamic_data |-> NoRecord],
                       !.calls = flushers.calls + 1]
    /\ UNCHANGED <<evVars, cacheVars, dispVars, hook, mailer, sockets, poller, reader, parsed, push, tested>>

\* thread t runs the call up to "with data_lock"
FlushPrepare(t) ==
    /\ flushers.th[t].pc = "prepare"
    /\ LET p == prepare_record(flushers.cache, flushers.store, flushers.th[t].current_time)
       IN flushers' = [flushers EXCEPT
                          !.cache = p.cache,
                          !.th[t].dynamic_data = p.dynamic_data,
                          !.th[t].pc = IF p.dynamic_data = NoRecord THEN "idle" ELSE "lock"]
    /\ UNCHANGED <<evVars, cacheVars, dispVars, hook, mailer, sockets, poller, reader, parsed, push, tested>>

\* thread t enters "with data_lock"
FlushAcquire(t) ==
    /\ flushers.th[t].pc = "lock"
    /\ data_lock_free(flushers.holder)
    /\ flushers' = [flushers EXCEPT !.holder = t, !.th[t].pc = "commit"]
    /\ UNCHANGED <<evVars, cacheVars, dispVars, hook, mailer, sockets, poller, reader, parsed, push, tested>>

\* thread t adds and commits its record and leaves "with data_lock"
FlushCommit(t) ==
    /\ flushers.th[t].pc = "commit"
    /\ flushers' = [flushers EXCEPT
                       !.store = commit_record(flushers.store, flushers.th[t].dynamic_data),
                       !.holder = 0,
                       !.th[t].pc = "finish"]
    /\ UNCHANGED <<evVars, cacheVars, dispVars, hook, mailer, sockets, poller, reader, parsed, push, tested>>

\* thread t runs the rest of the call and returns True
FlushFinish(t) ==
    /\ flushers.th[t].pc = "finish"
    /\ LET f == finish_save(flushers.cache, flushers.store, flushers.th[t].current_time)
       IN flushers' = [flushers EXCEPT !.cache = f.cache, !.store = f.store,
                                       !.th[t] = IdleThread]
    /\ UNCHANGED <<evVars, cacheVars, dispVars, hook, mailer, sockets, poller, reader, parsed, push, tested>>

NextFlushers ==
    \/ \E data \in {QuietSample} : FlushAdd(data)
    \/ FlushTick
    \/ \E t \in Threads : FlushCall(t)
    \/ \E t \in Threads : FlushPrepare(t)
    \/ \E t \in Threads : FlushAcquire(t)
    \/ \E t \in Threads : FlushCommit(t)
    \/ \E t \in Threads : FlushFinish(t)

(***************************************************************************)
(* Push notifications: the Ntfy leg of process_ups_event                    *)
(* (get_enabled_ntfy_configs, NtfyConfig.to_dict, send_ntfy_notification).  *)
(***************************************************************************)
PushEvents == {"ONBATT", "ONLINE", "COMMOK"}
PushUsernames == {"", "nutify"}
PushPasswords == {"", "hunter2", "********"}
\* a row of ups_opt_ntfy that has the event's notify flag set
NtfyRows ==
    [use_auth : BOOLEAN, username : PushUsernames, password : PushPasswords,
     priority : {1, 3}, use_tags : BOOLEAN]
\* what requests.post meets: a status code, or 0 for an exception
PushResponses == {200, 202, 401, 500, 0}

\* NtfyConfig.to_dict
to_dict(row) ==
    [use_auth |-> row.use_auth, username |-> row.username,
     password |-> IF row.password # "" THEN "********" ELSE "",
     priority |-> row.priority, use_tags |-> row.use_tags]

tag_map ==
    [t \in PushEvents |->
        CASE t = "ONLINE" -> "white_check_mark"
          [] t = "ONBATT" -> "battery"
          [] t = "COMMOK" -> "signal_strength"]

priority_map == [t \in PushEvents |-> CASE t = "ONBATT" -> 4 [] t = "ONLINE" -> 3 [] t = "COMMOK" -> 2]

\* no auth argument
NoAuth == <<>>

\* send_ntfy_notification: the headers and the auth of the request and what
\* is returned
send_ntfy_notification(event_type, config, response) ==
    [headers |-> [Priority |-> priority_map[event_type],
                  Tags |-> IF config.use_tags THEN tag_map[event_type] ELSE "",
                  Actions |-> event_type \in {"ONBATT", "LOWBATT", "COMMBAD", "NOCOMM",
                                              "REPLBATT"}],
     auth |-> IF config.use_auth /\ config.username # "" /\ config.password # ""
              THEN <<config.username, config.password>>
              ELSE NoAuth,
     ret |-> response \in {200, 201, 202}]

NoPush ==
    [called |-> FALSE, event_type |-> "ONLINE",
     row |-> [use_auth |-> FALSE, username |-> "", password |-> "", priority |-> 3,
              use_tags |-> FALSE],
     request |-> [headers |-> [Priority |-> 3, Tags |-> "", Actions |-> FALSE],
                  auth |-> NoAuth, ret |-> FALSE]]

\* process_ups_event pushes an event to the config stored as row
PushEvent(event_type, row, response) ==
    /\ push' = [called |-> TRUE, event_type |-> event_type, row |-> row,
                request |-> send_ntfy_notification(event_type, to_dict(row), response)]
    /\ UNCHANGED <<evVars, cacheVars, dispVars, hook, mailer, sockets, poller, reader, parsed, flushers, tested>>

NextPush ==
    \E event_type \in PushEvents, row \in NtfyRows, response \in PushResponses :
        PushEvent(event_type, row, response)

(***************************************************************************)
(* Webhook test action: test_notification (webhook.py).                     *)
(***************************************************************************)
\* variant: the result of the send is returned as it is
test_webhook_plain(cfg, resolves, answers) ==
    send_notification(cfg, resolves, answers).result

\* test_notification: the send is made with ignore_response_errors set (a
\* refused connection is a connection_error with or without it); a send that
\* ended with a connection error is reported as a success
test_webhook(cfg, resolves, answers) ==
    LET result == send_notification(cfg, resolves, answers).result
    IN IF ~result.success /\ result.error_type = "connection_error"
       THEN [success |-> TRUE, status_code |-> NULL, error_type |-> "none"]
       ELSE result

NoHookTest == [called |-> FALSE, send |-> NoHook, result |-> NULL]

\* the test button of a webhook configuration; one test is followed
TestWebhook(cfg, resolves, answers) ==
    /\ ~tested.called
    /\ tested' = [called |-> TRUE, send |-> send_notification(cfg, resolves, answers),
                  result |-> test_webhook(cfg, resolves, answers)]
    /\ UNCHANGED <<evVars, cacheVars, dispVars, hook, mailer, sockets, poller, reader, parsed, flushers, push>>

NextHookTest ==
    \E cfg \in UrlConfigs, resolves \in BOOLEAN,
       answers \in [1..(MaxRetries + 1) -> Answers] :
        TestWebhook(cfg, resolves, answers)

IdleHook == hook = NoHook
IdleMail == mailer = NewMailer
IdleSockets == sockets = NoSockets
IdlePoller == poller = NewPoller

IdleReader == reader = NoRead
IdleParser == parsed = NoParse
IdleFlushers == flushers = NewFlushers
IdlePush == push = NoPush
IdleHookTest == tested = NoHookTest
IdleExt == IdleHook /\ IdleMail /\ IdleSockets /\ IdlePoller /\ IdleReader /\ IdleParser /\ IdleFlushers /\ IdlePush /\ IdleHookTest

-----------------------------------------------------------------------------
(* Specifications *)

\* nothing is configured and no event is dispatched
IdleNotify == InitNotify /\ HAS_NTFY /\ HAS_WEBHOOK

\* the event store alone: the aggregator stays as constructed
InitEventStore ==
    /\ InitEvents
    /\ IdleExt
    /\ IdleNotify
    /\ InitCache
    /\ ~quiet
    /\ polling_interval = 1
    /\ wall = QuietStart

\* the aggregator alone: the event table stays empty
InitAggregator == InitEvents /\ IdleNotify /\ InitCache /\ IdleExt

\* the dispatch alone, by one notifier at a time: the aggregator stays as
\* constructed
InitDispatch ==
    /\ InitEvents
    /\ IdleExt
    /\ InitNotify
    /\ InitCache
    /\ ~quiet
    /\ polling_interval = 1
    /\ wall = QuietStart

SpecEvents == InitEventStore /\ [][NextEvents]_vars

SpecCache == InitAggregator /\ [][NextCache]_vars

SpecDispatch == InitDispatch /\ [][NextDispatch]_vars

\* the notifications of a sequence of events: every event type is notified by
\* email and by one ntfy configuration
InitNotified ==
    /\ InitEvents
    /\ IdleExt
    /\ InitCache
    /\ ~quiet
    /\ polling_interval = 1
    /\ wall = QuietStart
    /\ settings = [t \in NotifyTypes |-> [enabled |-> TRUE, id_email |-> 1]]
    /\ mail_enabled = TRUE
    /\ ntfy_configs = [n \in NtfyIds |-> [t \in NotifyTypes |-> n = NtfyOrder[1]]]
    /\ webhooks = [w \in WebhookIds |-> [t \in NotifyTypes |-> FALSE]]
    /\ HAS_NTFY = TRUE
    /\ HAS_WEBHOOK = FALSE
    /\ dispatch = NoDispatch
    /\ configured = 0
    /\ dispatches = 0

\* upsmon reports the events of a UPS one after the other, as time passes
NextNotified ==
    \/ \E u \in DispatchUps, t \in NotifyTypes, fault \in {"none"} \cup StoreFaults :
        dispatches < MaxNotified /\ ProcessEvent(u, t, fault)
    \/ Tick

SpecNotified == InitNotified /\ [][NextNotified]_vars

\* the webhook sends alone
SpecWebhook == InitEventStore /\ [][NextWebhook]_vars

\* the email tests and sends alone
SpecMail == InitEventStore /\ [][NextMail]_vars

\* the broadcasts and the websocket clients alone
SpecSockets == InitEventStore /\ [][NextSockets]_vars

\* the polling loop alone
SpecPoller == InitEventStore /\ [][NextPoller]_vars

\* the reader alone
SpecReader == InitEventStore /\ [][NextReader]_vars
SpecParser == InitEventStore /\ [][NextParser]_vars
SpecFlushers == InitEventStore /\ [][NextFlushers]_vars
SpecPush == InitEventStore /\ [][NextPush]_vars
SpecHttps == InitEventStore /\ [][NextHttps]_vars
SpecHookTest == InitEventStore /\ [][NextHookTest]_vars

-----------------------------------------------------------------------------
(* Event store: claims *)

AllIdle == \A p \in Notifiers : pc[p] = "idle"

AtMostOneOpen == \A u \in UpsNames : Cardinality(OpenEvents(events, u)) <= 1

\* C1: after any sequence of store_event_in_database calls none of which began
\* while another was in progress, every UPS name has at most one event row
\* with a null end timestamp.
C1_OneOpenSequential == (AllIdle /\ ~overlapped) => AtMostOneOpen

\* C2: when notifier processes run store_event_in_database concurrently, close
\* and insert of each call act as one unit: once all calls have finished, at
\* most one event row of a UPS has a null end timestamp (stated here for runs
\* in which no database operation raised).
C2_OneOpenConcurrent == (AllIdle /\ evFaults = 0) => AtMostOneOpen

\* C3: a call store_event_in_database(ups, type) made at time now that does not
\* overlap another call and returns True has set the end timestamp of every
\* open event of that UPS to now before it inserts the one new event with
\* begin = now, end = NULL, acknowledged = FALSE.
C3_CloseThenInsert ==
    [][\A p \in Notifiers :
          (~overlapped /\ pc[p] = "insert" /\ pc'[p] = "idle" /\ call'[p].ret = "True")
          => /\ OpenEvents(events, call[p].ups) = {}
             /\ \A i \in call[p].open : events[i].timestamp_tz_end = call[p].now
             /\ events' = Append(events, NewEvent(call[p].ups, call[p].type, call[p].now))
      ]_vars

-----------------------------------------------------------------------------
(* Aggregator: claims *)

PollStep == cycles' = cycles + 1

\* the row a successful flush appended in this step
FlushedRow == store'[Len(store) + 1]

\* a minute boundary of the configured timezone
OnMinute(t) == astimezone(t) % Minute = 0

\* t is the first minute boundary strictly after instant s
NextBoundaryAfter(t, s) == OnMinute(t) /\ t > s /\ t <= s + Minute

RECURSIVE AllSamples(_)
AllSamples(st) == IF st = <<>> THEN <<>> ELSE Head(st).samples \o AllSamples(Tail(st))

\* every sample added so far is in exactly one row or still in the buffer
Conservation == hist.added = AllSamples(store) \o Timestamps(cache.data)

\* C4: the aggregate store holds at most one record for any minute-boundary
\* timestamp.
C4_OneRecordPerMinute ==
    \A i, j \in DOMAIN store :
        (i # j /\ OnMinute(store[i].timestamp_tz))
        => store[i].timestamp_tz # store[j].timestamp_tz

\* C5 as stated: no record is written while the current time is before
\* next_save_time.
C5_NoRecordBeforeSaveTime ==
    [][(PollStep /\ Len(store') > Len(store)) => last'.now >= last'.next_save_time]_vars

\* C5 amended: no record is written while the current time is before
\* next_save_time and the buffer is under its cap; a cycle that writes no
\* record keeps every buffered sample, and a flush averages all of them,
\* those added before next_save_time and the one added after it, into the one
\* record it writes.
C5_NoEarlyFlushUnderCap ==
    [][PollStep =>
        /\ Len(store') > Len(store)
           => (last'.now >= last'.next_save_time \/ Len(last'.buffered) >= last'.size)
        /\ (last'.added /\ last'.ret # "True")
           => Timestamps(cache'.data) = Append(Timestamps(cache.data), wall)
        /\ last'.ret = "True"
           => FlushedRow.samples = Append(Timestamps(cache.data), wall)
      ]_vars

\* C5 witness: samples added 1s before and 1s after next_save_time were
\* averaged into the record of the flush made 1s after the boundary.
C5_Witness ==
    /\ last.ret = "True"
    /\ last.now = last.next_save_time + Second
    /\ \E i \in DOMAIN store :
        /\ store[i].timestamp_tz = last.next_save_time
        /\ store[i].samples = <<last.next_save_time - Second, last.now>>

\* C6: is_save_time is true exactly when next_save_time is set and either the
\* time has reached it or the buffer holds at least size samples; both for the
\* cache as it stands and for the call each polling cycle made.
C6_SaveTimeIffDueOrFull ==
    /\ is_save_time(cache, wall)
       <=> /\ cache.next_save_time # NULL
           /\ (wall >= cache.next_save_time \/ Len(cache.data) >= cache.size)
    /\ last.added
       => (last.due <=> /\ last.next_save_time # NULL
                        /\ \/ last.now >= last.next_save_time
                           \/ Len(last.buffered) >= last.size)

\* C6 witness: cap 60, the 60th add made before the minute boundary, flushed
\* from the cap condition alone.
C6_Witness ==
    /\ last.added /\ last.due /\ last.ret = "True"
    /\ last.size = 60 /\ Len(last.buffered) = 60
    /\ last.now < last.next_save_time

\* C7: in every polling cycle the cap used by is_save_time is
\* max(5, CACHE_SECONDS / polling_interval) for the interval configured then.
C7_CapFollowsInterval ==
    (last.added /\ last.fault = "none")
    => last.size = Max(5, CACHE_SECONDS \div last.interval)

\* C8: a successful flush appends one record averaged from the buffer, its
\* timestamp the next_save_time of before the flush, then the buffer is empty
\* and next_save_time is the next minute boundary after the flush time; the
\* only other row such a call can write is the daily aggregate.
C8_SuccessfulFlush ==
    [][(PollStep /\ last'.ret = "True") =>
        /\ Len(store') \in {Len(store) + 1, Len(store) + 2}
        /\ SubSeq(store', 1, Len(store)) = store
        /\ cache.next_save_time # NULL
        /\ FlushedRow.timestamp_tz = cache.next_save_time
        /\ FlushedRow.ups_realpower_days = NULL
        /\ FlushedRow.samples # <<>>
        /\ Len(store') = Len(store) + 2
           => /\ store'[Len(store) + 2].ups_realpower_days # NULL
              /\ store'[Len(store) + 2].samples = <<>>
        /\ cache'.data = <<>>
        /\ NextBoundaryAfter(cache'.next_save_time, wall)
      ]_vars

\* C8 witness: a flush made exactly at next_save_time wrote the record of that
\* minute and scheduled the next save one minute later.
C8_Witness ==
    /\ last.ret = "True" /\ cache.data = <<>>
    /\ last.now = last.next_save_time
    /\ store[Len(store)].timestamp_tz = last.now
    /\ cache.next_save_time = last.now + Minute

\* C9: a flush whose commit raises returns False, writes nothing and leaves
\* the buffer and next_save_time as they were; the next successful flush
\* averages the whole buffer, so no sample added is ever missing from both the
\* buffer and the records.
C9_FailedSaveKeepsSamples ==
    [][PollStep =>
        /\ last'.fault = "persist"
           => /\ last'.ret = "False"
              /\ store' = store
              /\ Timestamps(cache'.data) = Append(Timestamps(cache.data), wall)
              /\ cache'.next_save_time = last'.next_save_time
        /\ last'.ret = "True"
           => FlushedRow.samples = Append(Timestamps(cache.data), wall)
        /\ Conservation'
      ]_vars

\* C9 witness: the sample added in a cycle whose commit raised is in a record
\* written by a later flush.
C9_Witness ==
    /\ hist.failedAt # NULL
    /\ last.ret = "True"
    /\ \E i \in DOMAIN store : \E k \in DOMAIN store[i].samples :
        store[i].samples[k] = hist.failedAt

\* C10: the first add on a fresh cache sets next_save_time to the first minute
\* boundary strictly after its timestamp; every add appends its sample and
\* leaves a next_save_time that is set as it is.
C10_AddSetsNextSaveTimeOnce ==
    [][(PollStep /\ last'.added) =>
        /\ cache.next_save_time = NULL
           => NextBoundaryAfter(last'.next_save_time, wall)
        /\ cache.next_save_time # NULL
           => last'.next_save_time = cache.next_save_time
        /\ last'.buffered = Append(Timestamps(cache.data), wall)
      ]_vars

\* C10 witness: the first add, made exactly on a minute boundary, scheduled
\* the save one minute later.
C10_Witness ==
    /\ Len(hist.added) = 1 /\ last.added
    /\ OnMinute(last.now)
    /\ last.next_save_time = last.now + Minute

\* the times a caller may pass: the clock, the time scheduled for the next
\* save, a minute, an hour and a day later
CallTimes ==
    {wall, wall + Minute, wall + Hour, wall + Day}
    \cup (IF cache.next_save_time = NULL THEN {} ELSE {cache.next_save_time})

\* C11: calculate_and_save_averages called with an empty buffer returns False
\* and writes no record, at any time and whichever operation would raise; a
\* second call returns the same and leaves the cache as the first left it.
C11_EmptyBufferNoOp ==
    cache.data = <<>> =>
        \A t \in CallTimes, fault \in Faults :
            LET r1 == calculate_and_save_averages(cache, store, t, fault)
                r2 == calculate_and_save_averages(r1.cache, r1.store, t, fault)
            IN /\ r1.ret = "False" /\ r1.store = store /\ r1.cache.data = <<>>
               /\ r1.cache.next_save_time = cache.next_save_time
               /\ r2.ret = "False" /\ r2.store = store /\ r2.cache = r1.cache

\* C11 witness: the buffer is empty after a flush and the time scheduled for
\* the next save has passed, so that is_save_time holds and only the empty
\* buffer keeps the call from writing.
C11_Witness ==
    /\ cache.data = <<>> /\ store # <<>>
    /\ is_save_time(cache, wall)

Abs(x) == IF x >= 0 THEN x ELSE 0 - x

\* v, in hundredths, is the mean of values rounded to 2 decimals
IsRoundedMean(v, values) ==
    2 * Abs(v * Len(values) - 100 * SumSeq(values)) <= Len(values)

\* v, in hundredths, is the mean of values
IsMean(v, values) == v * Len(values) = 100 * SumSeq(values)

Column(data, col) == Present([i \in DOMAIN data |-> data[i][col]])

\* C12 as stated: every numeric column averages to the arithmetic mean of its
\* buffered values.
C12_AveragesAreMeans ==
    cache.data # <<>> =>
        \A col \in {"ups_realpower", "ups_load"} :
            Column(cache.data, col) # <<>>
            => IsMean(calculate_averages(cache)[col], Column(cache.data, col))

\* C12 amended: calculate_averages returns None for an empty buffer; else, for
\* every numeric column, the arithmetic mean of the buffered values rounded to
\* 2 decimals (the value itself for a single sample), nothing for a column no
\* sample has, and for the non-numeric column the value of the last sample.
C12_AveragesAreRoundedMeans ==
    LET a == calculate_averages(cache)
        n == Len(cache.data)
    IN /\ a.none <=> n = 0
       /\ n > 0 =>
            /\ \A col \in {"ups_realpower", "ups_load"} :
                 IF Column(cache.data, col) = <<>> THEN a[col] = NULL
                 ELSE IsRoundedMean(a[col], Column(cache.data, col))
            /\ n = 1 => a.ups_load = 100 * cache.data[1].ups_load
            /\ a.ups_status = cache.data[n].ups_status

\* C12 witness: a single buffered sample with ups_load = 42 averages to 42.
C12_Witness ==
    /\ Len(cache.data) = 1 /\ cache.data[1].ups_load = 42
    /\ calculate_averages(cache).ups_load = 4200
    /\ calculate_averages(cache).ups_status = cache.data[1].ups_status

\* an hour boundary of the configured timezone
OnHour(t) == astimezone(t) % Hour = 0

\* the ups_realpower values of the persisted records stamped in [from, to)
PersistedPowers(st, from, to) ==
    LET rows == SelectSeq(st, LAMBDA r : /\ r.timestamp_tz >= from
                                         /\ r.timestamp_tz < to
                                         /\ r.ups_realpower # NULL)
    IN [i \in DOMAIN rows |-> rows[i].ups_realpower]

\* v is the mean of values rounded to the unit the values are in
IsRoundedAverage(v, values) ==
    2 * Abs(v * Len(values) - SumSeq(values)) <= Len(values)

\* C13: a flush at or after next_hour writes a record whose ups_realpower_hrs
\* is the (rounded) mean of ups_realpower over the persisted records stamped
\* in [next_hour - 1h, next_hour), when there are any, empties the hourly
\* side-buffer and moves next_hour to the next hour boundary after the flush
\* time; a flush before next_hour leaves ups_realpower_hrs unset.
C13_HourlyAtFirstFlushAfterHour ==
    [][(PollStep /\ last'.ret = "True") =>
        LET powers == PersistedPowers(store, cache.next_hour - Hour, cache.next_hour) IN
        /\ cache.next_hour # NULL
        /\ IF wall >= cache.next_hour
           THEN /\ IF powers = <<>> THEN FlushedRow.ups_realpower_hrs = NULL
                   ELSE IsRoundedAverage(FlushedRow.ups_realpower_hrs, powers)
                /\ cache'.hourly_data = <<>>
                /\ OnHour(cache'.next_hour)
                /\ cache'.next_hour > wall /\ cache'.next_hour <= wall + Hour
           ELSE /\ FlushedRow.ups_realpower_hrs = NULL
                /\ cache'.next_hour = cache.next_hour
      ]_vars

\* the local time of t is in the minute 00:00
AtMidnightMinute(t) == astimezone(t) % Day < Minute

\* C14: aggregate_daily_data is called only in a successful flush whose local
\* time has hour 0 and minute 0, and never twice for the same local date.
C14_DailyOnlyAtMidnightOncePerDate ==
    [][(PollStep /\ last'.daily) =>
        /\ last'.ret = "True"
        /\ AtMidnightMinute(wall)
        /\ \A k \in DOMAIN hist.daily : LocalDate(hist.daily[k]) # LocalDate(wall)
      ]_vars

\* C14 witness: a second flush in the minute 00:00 of a date whose daily
\* aggregation already ran did not run it again.
C14_Witness ==
    /\ last.ret = "True" /\ ~last.daily
    /\ AtMidnightMinute(last.now)
    /\ \E k \in DOMAIN hist.daily : LocalDate(hist.daily[k]) = LocalDate(last.now)

\* the ups_realpower_hrs values of the records stamped in [from, to)
PersistedHourly(st, from, to) ==
    LET rows == SelectSeq(st, LAMBDA r : /\ r.timestamp_tz >= from
                                         /\ r.timestamp_tz < to
                                         /\ r.ups_realpower_hrs # NULL)
    IN [i \in DOMAIN rows |-> rows[i].ups_realpower_hrs]

\* C15: a daily aggregation that runs while records of the previous day carry
\* ups_realpower_hrs writes one record, timestamped at the start of the
\* previous day, whose ups_realpower_days is the (rounded) mean of those
\* values.
C15_DailyRecordForPreviousDay ==
    [][(PollStep /\ last'.daily) =>
        LET start == instant((LocalDate(wall) - 1) * Day)
            hrs == PersistedHourly(SubSeq(store', 1, Len(store) + 1), start, start + Day)
        IN hrs # <<>> =>
            /\ Len(store') = Len(store) + 2
            /\ store'[Len(store) + 2].timestamp_tz = start
            /\ IsRoundedAverage(store'[Len(store) + 2].ups_realpower_days, hrs)
      ]_vars

-----------------------------------------------------------------------------
(* Dispatch: claims *)

Dispatched == dispatch.ret # "none"

\* the sends of the last call, as a set of channel and configuration
Attempted == {[channel |-> dispatch.attempts[k].channel,
               config |-> dispatch.attempts[k].config] : k \in DOMAIN dispatch.attempts}

AttemptedOn(channel) == {j \in Attempted : j.channel = channel}

\* what the configuration enables for an event type
EnabledEmail(t) ==
    IF settings[t].enabled /\ settings[t].id_email # NULL /\ mail_enabled
    THEN {[channel |-> "email", config |-> settings[t].id_email]} ELSE {}

EnabledNtfy(t) == {[channel |-> "ntfy", config |-> n] : n \in {m \in NtfyIds : ntfy_configs[m][t]}}

EnabledWebhooks(t) ==
    IF HAS_WEBHOOK
    THEN {[channel |-> "webhook", config |-> w] : w \in {v \in WebhookIds : webhooks[v][t]}}
    ELSE {}

\* C16: when store_event_in_database fails (its insert raises), process_ups_event
\* returns False and attempts no email, push or webhook send.
C16_StoreFailureAbortsDispatch ==
    (Dispatched /\ dispatch.fault = "insert")
    => /\ ~dispatch.stored
       /\ dispatch.ret = "False"
       /\ dispatch.attempts = <<>>

\* C16 witness: the insert failed for an event type that has sends enabled,
\* and none was attempted.
C16_Witness ==
    /\ Dispatched /\ dispatch.fault = "insert" /\ dispatch.ret = "False"
    /\ EnabledEmail(dispatch.type) \cup EnabledNtfy(dispatch.type)
       \cup EnabledWebhooks(dispatch.type) # {}
    /\ dispatch.attempts = <<>>

\* C17: when store_event_in_database succeeds, process_ups_event returns True,
\* whether each send succeeds, reports a failure or raises.
C17_StoredMeansTrue ==
    (Dispatched /\ dispatch.fault # "insert")
    => /\ dispatch.stored
       /\ dispatch.ret = "True"

\* C17 witness: a call returned True although a send raised.
C17_Witness ==
    /\ Dispatched /\ dispatch.stored /\ dispatch.ret = "True"
    /\ \E k \in DOMAIN dispatch.attempts : dispatch.attempts[k].outcome = "raised"

C19_EmailIffRowEnabled ==
    (Dispatched /\ dispatch.stored /\ dispatch.fault \notin QueryFaults)
    => (AttemptedOn("email") # {}
        <=> (settings[dispatch.type].enabled /\ settings[dispatch.type].id_email # NULL))

\* C19 amended: an email send is attempted exactly when the settings row of
\* the event type is enabled, has an id_email and an enabled email
\* configuration exists; the send is for the configuration the row references.
C19_EmailIffRowAndMailEnabled ==
    (Dispatched /\ dispatch.stored /\ dispatch.fault \notin QueryFaults)
    => /\ AttemptedOn("email") # {}
          <=> /\ settings[dispatch.type].enabled
              /\ settings[dispatch.type].id_email # NULL
              /\ mail_enabled
       /\ \A j \in AttemptedOn("email") : j.config = settings[dispatch.type].id_email

\* C19 witness: the row is enabled with an id_email, an email configuration
\* is enabled, and the email send was attempted.
C19_Witness ==
    /\ Dispatched /\ dispatch.stored
    /\ settings[dispatch.type].enabled /\ settings[dispatch.type].id_email # NULL
    /\ mail_enabled
    /\ AttemptedOn("email") # {}

\* C20: the push sends go to exactly the ntfy configurations whose
\* notify_<event_type> flag is true; with none, there is no push send and the
\* call still returns True.
C20_PushToFlaggedConfigs ==
    (Dispatched /\ dispatch.stored /\ dispatch.fault \notin QueryFaults)
    => /\ AttemptedOn("ntfy") = EnabledNtfy(dispatch.type)
       /\ EnabledNtfy(dispatch.type) = {} => dispatch.ret = "True"

\* C20 witness: one configuration is flagged for the event type and got the
\* push, another is flagged for the other event type only and got none.
C20_Witness ==
    /\ Dispatched /\ dispatch.stored
    /\ \E n, m \in NtfyIds :
        /\ n # m
        /\ ntfy_configs[n][dispatch.type]
        /\ ~ntfy_configs[m][dispatch.type]
        /\ \E t \in EventTypes : ntfy_configs[m][t]
        /\ AttemptedOn("ntfy") = {[channel |-> "ntfy", config |-> n]}

-----------------------------------------------------------------------------
(* Durations: claims *)

\* the latest row of a UPS with one of the event types, other than the row the
\* last call inserted; 0 if there is none
LatestBefore(u, types) ==
    LET rows == {i \in 1..(Len(events) - 1) :
                    events[i].ups_name = u /\ events[i].event_type \in types}
    IN IF rows = {} THEN 0 ELSE Head(order_by_desc(events, rows))

\* the row is still open or was closed by the last call
OpenOrJustClosed(i) == events[i].timestamp_tz_end \in {NULL, dispatch.now}

\* a notification of the last call was sent for an event type
Notified(t) ==
    /\ Dispatched /\ dispatch.stored /\ dispatch.type = t
    /\ dispatch.attempts # <<>>

\* C21: the battery duration of an ONLINE notification is floor(D / 60)
\* minutes, D the seconds since the begin of the latest ONBATT event of the
\* UPS, be that event still open or closed by recording the ONLINE event.
C21_BatteryDuration ==
    LET i == LatestBefore(dispatch.ups, {"ONBATT"})
    IN (Notified("ONLINE") /\ i # 0 /\ OpenOrJustClosed(i))
       => dispatch.event_data.battery_duration
          = (dispatch.now - events[i].timestamp_tz_begin) \div 60

\* C22: the communication-loss duration of a COMMOK notification is
\* floor(D / 60) minutes, D the seconds since the begin of the latest COMMBAD
\* or NOCOMM event of the UPS.
C22_CommDuration ==
    LET i == LatestBefore(dispatch.ups, {"COMMBAD", "NOCOMM"})
    IN (Notified("COMMOK") /\ i # 0 /\ OpenOrJustClosed(i))
       => dispatch.event_data.comm_duration
          = (dispatch.now - events[i].timestamp_tz_begin) \div 60

-----------------------------------------------------------------------------
(* Webhook send: claims *)

\* the number of POST requests of the send
Posts == Len(hook.met)

\* C23: a webhook send repeats the POST only after a 429, 500, 502, 503 or 504
\* response, makes at most max_retries + 1 attempts and returns a success or
\* failure result
C23_RetryOnlyOnStatus ==
    hook.called =>
        /\ \A i \in 2..Posts :
              hook.met[i - 1].kind = "response"
                  /\ hook.met[i - 1].status \in {429, 500, 502, 503, 504}
        /\ Posts <= hook.config.max_retries + 1
        /\ hook.result.success \in BOOLEAN

\* C24: a failed send reports ssl_error for a TLS failure, dns_error for a
\* name-resolution failure, connection_error for a refused connection and
\* timeout_error for a connect timeout and for a read timeout
C24_ErrorTypePerCategory ==
    (hook.called /\ Posts > 0 /\ hook.met[Posts].kind # "response") =>
        /\ ~hook.result.success
        /\ hook.result.error_type =
              (CASE hook.met[Posts].kind = "ssl" -> "ssl_error"
                 [] hook.met[Posts].kind = "dns" -> "dns_error"
                 [] hook.met[Posts].kind = "refused" -> "connection_error"
                 [] hook.met[Posts].kind \in {"connect_timeout", "read_timeout"} ->
                        "timeout_error")

\* C25: with signing enabled and a non-empty secret, the signature header of
\* the request is the HMAC, with the configured hash, of exactly the body that
\* is transmitted
C25_SignatureOverTransmittedBody ==
    (hook.called /\ Posts > 0 /\ hook.config.signing_enabled
        /\ hook.config.signing_secret # "") =>
        hook.request.signature =
            hmac(hook.config.signing_secret, hook.request.body,
                 hook.config.signing_algorithm)

-----------------------------------------------------------------------------
(* Email: claims *)

\* C26: any two accepted test notifications start at least the cooldown apart,
\* and a rejected one returns the failure message and sends nothing
C26_TestCooldown ==
    /\ \A i, j \in DOMAIN mailer.accepted :
          i < j => mailer.accepted[j] - mailer.accepted[i] >= 2 * Second
    /\ (mailer.last.fn = "test_notification" /\ ~mailer.last.accepted) =>
          /\ ~mailer.last.result.success
          /\ mailer.last.result.message =
                "Please wait a few seconds before sending another test notification"
          /\ ~mailer.last.result.sent
    /\ (mailer.last.fn = "test_notification" /\ mailer.last.accepted) =>
          \A i \in 1..(Len(mailer.accepted) - 1) :
              mailer.last.at - mailer.accepted[i] >= 2 * Second

\* two test notifications were accepted and one, made sooner, was rejected
C26_Witness ==
    /\ Len(mailer.accepted) >= 2
    /\ mailer.rejected >= 1
    /\ mailer.last.fn = "test_notification"

DecryptionMessages ==
    {"Stored password cannot be decrypted with the current encryption key. Please enter a new password."}
NoConfigMessages ==
    {"Email configuration not found or disabled",
     "No password provided and no valid password stored. Please enter a password."}

\* C27: a send or test that meets a stored password it cannot decrypt returns
\* a failure whose message identifies the decryption failure and is not the
\* message of a missing configuration
C27_DecryptionFailureReported ==
    (mailer.last.result.read_password /\ mailer.last.config.password = "undecryptable") =>
        /\ ~mailer.last.result.success
        /\ mailer.last.result.message \in DecryptionMessages
        /\ mailer.last.result.message \notin NoConfigMessages

-----------------------------------------------------------------------------
(* Real-time broadcast: claims *)

LastPayload == sockets.last.before[1]
Offered == sockets.calls[Len(sockets.calls)].data

\* the metric is in both payloads and the two values differ by d halves or more
Differ(a, b, metric, d) ==
    /\ a[metric] # NULL /\ b[metric] # NULL
    /\ Abs(a[metric] - b[metric]) >= d

WatchedMetrics == {"ups_load", "battery_charge", "ups_realpower", "input_voltage"}

C29_CatchUpWithLastPayload ==
    /\ sockets.last.kind = "connect" =>
          sockets.last.emitted =
              (IF cache.last_broadcast = <<>> THEN <<>>
               ELSE <<[event |-> "cache_update", data |-> cache.last_broadcast]>>)
    /\ (sockets.last.kind = "request" /\ cache.last_broadcast # <<>>) =>
          sockets.last.emitted = <<[event |-> "cache_update", data |-> cache.last_broadcast]>>

\* a client connected after two broadcasts and was sent the second payload
C29_Witness ==
    /\ sockets.last.kind = "connect"
    /\ sockets.samples >= 2
    /\ Len(sockets.last.emitted) = 1
    /\ sockets.last.emitted[1].data[1].timestamp = sockets.samples
    /\ sockets.calls[1].emit

-----------------------------------------------------------------------------
(* Polling loop: claims *)

\* C30: after k failed reads in a row the loop sleeps min(300, 2^k) seconds and
\* has read once in the iteration; after a successful read the failure count
\* is 0 and the sleep is the polling interval clamped to 1..60; the loop goes
\* on after a failed read
C30_BackOffAfterFailedReads ==
    /\ poller.last.outcome = "read_failed" =>
          /\ poller.last.sleep =
                (IF 2 ^ poller.failed_reads < 300 THEN 2 ^ poller.failed_reads ELSE 300)
          /\ poller.last.reads = 1
          /\ poller.running
    /\ poller.last.outcome = "ok" =>
          /\ poller.failures = 0
          /\ poller.last.sleep >= 1 /\ poller.last.sleep <= 60
          /\ (poller.last.configured # NULL /\ poller.last.configured >= 1
                  /\ poller.last.configured <= 60)
                => poller.last.sleep = poller.last.configured

-----------------------------------------------------------------------------
(* Reader: claims *)

\* C31: when the status command exits nonzero or times out, get_ups_data
\* raises an exception of the connection-error type UPSConnectionError
C31_ConnectionErrorType ==
    (reader.called /\ reader.has_params /\ reader.run \in {"nonzero", "timeout"}) =>
        ups_isinstance(reader.result.raised, "UPSConnectionError")

\* the reading was taken and the device reported no real power, or 0
Underived ==
    /\ reader.called /\ reader.has_params /\ reader.run = "ok"
    /\ reader.raw.ups_realpower \in {NULL, 0}

NominalPower ==
    IF reader.raw.ups_realpower_nominal # NULL THEN reader.raw.ups_realpower_nominal
    ELSE UPS_REALPOWER_NOMINAL

PatternOf(t) == CHOOSE k \in 1..Len(patterns) : patterns[k].event_type = t

\* text is a free-text form of the event t of the UPS n: "UPS n ... wording"
IsFreeTextOf(text, n, t) ==
    /\ t \in {patterns[k].event_type : k \in 1..Len(patterns)}
    /\ Len(text) >= 2 /\ text[1] = "UPS" /\ text[2] = n
    /\ \E i \in 3..Len(text) :
           /\ i + Len(patterns[PatternOf(t)].words) - 1 <= Len(text)
           /\ SubSeq(text, i, i + Len(patterns[PatternOf(t)].words) - 1)
                  = patterns[PatternOf(t)].words

\* no pattern tried before that of t matches the text
FirstMatch(text, t) ==
    \A k \in 1..(PatternOf(t) - 1) : ~re_search(patterns[k].words, text).found

\* the event type of a result is canonical
Canonical(result) == Len(result.event_type) = 1 /\ result.event_type[1] \in event_messages

\* C33: the structured form (name, TYPE) and the free-text form of the same
\* event are mapped to the same (name, type) pair, and every event type
\* parse_input_args returns is one of the canonical event types
C33_SamePairCanonicalType ==
    parsed.called =>
        /\ ~parsed.result.none => Canonical(parsed.result)
        /\ \A n \in ArgNames, t \in event_messages :
               Len(parsed.args) = 1 /\ IsFreeTextOf(parsed.args[1], n, t)
                   => parsed.result = parse_input_args(<<<<n>>, <<t>>>>)

\* C33 as amended: the structured form is returned as given; a free-text
\* form of an event that matches no pattern tried before that event's is
\* mapped to the pair the structured form of the event gives, and every
\* event type returned for a free-text form is canonical
C33_SamePairFirstMatch ==
    parsed.called =>
        /\ Len(parsed.args) >= 2
               => parsed.result = [none |-> FALSE, ups_name |-> parsed.args[1],
                                   event_type |-> parsed.args[2]]
        /\ Len(parsed.args) = 1 /\ ~parsed.result.none => Canonical(parsed.result)
        /\ \A n \in ArgNames, t \in event_messages :
               /\ Len(parsed.args) = 1
               /\ IsFreeTextOf(parsed.args[1], n, t)
               /\ FirstMatch(parsed.args[1], t)
               => parsed.result = parse_input_args(<<<<n>>, <<t>>>>)

\* C33 witness: "UPS station is low battery" was parsed to (station, LOWBATT),
\* the pair of the structured form, and main accepted it
C33_Witness ==
    /\ parsed.called
    /\ parsed.args = <<<<"UPS", "station", "is", "low", "battery">>>>
    /\ parsed.result = parse_input_args(<<<<"station">>, <<"LOWBATT">>>>)
    /\ parsed.result.event_type = <<"LOWBATT">>
    /\ parsed.accepted

(***************************************************************************)
(* Concurrent flushes: claims                                              *)
(***************************************************************************)
\* the records averaged from the sample added at time ts
RecordsOf(ts) ==
    {i \in DOMAIN flushers.store :
        \E k \in DOMAIN flushers.store[i].samples : flushers.store[i].samples[k] = ts}

\* the persist steps are mutually exclusive
PersistExclusive ==
    /\ \A t, u \in Threads :
           flushers.th[t].pc = "commit" /\ flushers.th[u].pc = "commit" => t = u
    /\ \A t \in Threads : flushers.th[t].pc = "commit" <=> flushers.holder = t

\* C34: with two threads in calculate_and_save_averages at once the persist
\* steps are mutually exclusive and each buffered sample contributes to
\* exactly one persisted record: never to two, and to one once the calls
\* that found it in the buffer have returned
C34_ExclusiveFlushOnce ==
    /\ PersistExclusive
    /\ \A k \in DOMAIN flushers.added : Cardinality(RecordsOf(flushers.added[k])) <= 1
    /\ (\A t \in Threads : flushers.th[t].pc = "idle")
           => \A k \in DOMAIN flushers.added :
                  \/ \E i \in DOMAIN flushers.cache.data :
                         flushers.cache.data[i].timestamp = flushers.added[k]
                  \/ Cardinality(RecordsOf(flushers.added[k])) = 1

(***************************************************************************)
(* Push notifications: claims                                              *)
(***************************************************************************)
\* C35: for a push config with use_auth set and a stored username and
\* password, the request sent for the event authenticates with the stored
\* password
C35_AuthWithStoredPassword ==
    /\ push.called
    /\ push.row.use_auth /\ push.row.username # "" /\ push.row.password # ""
    => push.request.auth = <<push.row.username, push.row.password>>

(***************************************************************************)
(* Webhook URL: claims                                                     *)
(***************************************************************************)
\* C36: with enforce_https set, send_notification sends no request to a URL
\* whose scheme is not https, whatever skip_hostname_validation and
\* direct_ip_connection are
C36_HttpsEnforced ==
    hook.called /\ hook.config.enforce_https /\ hook.config.protocol # "https"
        => /\ hook.met = <<>>
           /\ hook.request = NoRequest
           /\ hook.result.error_type = "url_validation_error"

(***************************************************************************)
(* Webhook test action: claims                                             *)
(***************************************************************************)
\* C40: test_notification returns success = True whenever the send ended
\* with error_type connection_error, and the result of the send unchanged
\* in every other case
C40_TestMasksConnectionError ==
    tested.called =>
        IF tested.send.result.error_type = "connection_error"
        THEN tested.result.success
        ELSE tested.result = tested.send.result

\* C40 witness: a test whose send was refused the connection, ended with
\* connection_error and success = False, and was reported as a success
C40_Witness ==
    /\ tested.called
    /\ tested.send.met # <<>>
    /\ tested.send.result.error_type = "connection_error"
    /\ ~tested.send.result.success
    /\ tested.result.success

(***************************************************************************)
(* Aggregator: a failed flush and the hourly block                         *)
(***************************************************************************)
\* C37: a flush whose commit raises leaves next_hour and the hourly
\* side-buffer as they were before the flush (so that the hourly average
\* due at that flush is still written by the next successful flush)
C37_FailedFlushKeepsHourly ==
    [][PollStep =>
        (last'.fault = "persist" /\ cache.next_hour # NULL
            => /\ cache'.next_hour = cache.next_hour
               /\ cache'.hourly_data = cache.hourly_data)
      ]_vars

StepOf(p) == pc[p] # "idle" /\ pc'[p] # pc[p]

\* C39: a call for one UPS changes no row of another UPS, and no call
\* changes the end timestamp of an event that is already closed
C39_OtherRowsUntouched ==
    [][\A i \in DOMAIN events :
          /\ i \in DOMAIN events'
          /\ events'[i] # events[i]
                 => \E p \in Notifiers : StepOf(p) /\ call[p].ups = events[i].ups_name
          /\ events[i].timestamp_tz_end # NULL
                 => events'[i].timestamp_tz_end = events[i].timestamp_tz_end
      ]_vars

====
